---- MODULE Spec2Model ----
(***************************************************************************)
(* fl-bgr-soil (src/main.py): the AOI analysis service.                    *)
(*                                                                         *)
(* The model follows the worker threads of the Flask application through   *)
(* api_analyze (validation, call budget, point sampling, the per-source    *)
(* loop) and through random_points_in_polygon, whose draws go to the one   *)
(* generator of Python's random module that every thread shares.           *)
(*                                                                         *)
(* Abstractions.  Coordinates are cells 0..GridMax of the AOI's bounding   *)
(* box; shapely's contains() is membership of the cell in the AOI's set of *)
(* interior cells.  The Mersenne Twister is a 16-state linear congruential *)
(* generator: seeding and drawing are deterministic functions of the       *)
(* state, which is all the claims on reproducibility and sharing need.     *)
(* Areas are whole km2.  An upstream WMS answer is a function of the       *)
(* source and the location, or a failure of the HTTP call.                 *)
(***************************************************************************)
EXTENDS Integers, Sequences, FiniteSets, TLC

VARIABLES
    cfg,    \* process configuration read from the environment (lines 55-68)
    net,    \* the upstream WMS services: "down", or the data they serve
    rng,    \* state of the module-global generator of `random`
    now,    \* last value read from time.time(), in whole seconds
    th,     \* per worker thread: the locals of the code it is running
    page    \* the script of the web page in one browser tab (lines 1328-1794)

vars == <<cfg, net, rng, now, th, page>>

----------------------------------------------------------------------------
(* Bounds of the model *)

GridMax == 1        \* candidate cells are (0..GridMax) x (0..GridMax)
MaxTime == 2        \* time.time() reads 1..MaxTime
MaxSeed == 1        \* explicit seeds of a direct caller are 0..MaxSeed
MaxDirectN == 2     \* sample counts of a direct caller are 1..MaxDirectN
MaxAttrs == 3       \* attribute maps handed to _pick_attr hold 0..MaxAttrs fields
MaxTotal == 80      \* bucket counts handed to the aggregation sum to 0..MaxTotal
MaxBinValue == 180  \* values handed to the binning are -10..MaxBinValue tenths
MaxBinGap == 5      \* and come in pairs 0..MaxBinGap tenths apart

\* AOIs drawn or edited on the page, and analyses it starts
MaxShapes == 2

MaxAnalyses == 3

(* Program constants *)

MAX_AOI_KM2 == 25
DEFAULT_MAX_FEATURE_CALLS == 60
DEFAULT_MAX_SAMPLES == 80
MIN_SAMPLES == 5
MIN_TRIES == 4000
TRIES_PER_POINT == 250

Threads == {1, 2}

Max(a, b) == IF a >= b THEN a ELSE b
Min(a, b) == IF a <= b THEN a ELSE b

QUALITY_TO_SAMPLES == [fast |-> 15, standard |-> 25, detailed |-> 50]

Qualities == {"fast", "standard", "detailed"}

BASE_ORDER == <<"buek1000en", "boart1000ob", "nfkwe1000", "physgru1000">>

RUN_ORDER(enable_sqr) == IF enable_sqr THEN Append(BASE_ORDER, "sqr1000") ELSE BASE_ORDER

NumericSources == {"nfkwe1000", "physgru1000", "sqr1000"}

SourceIds(enable_sqr) == {RUN_ORDER(enable_sqr)[i] : i \in 1..Len(RUN_ORDER(enable_sqr))}

ValueType(sid) == IF sid \in NumericSources THEN "numeric" ELSE "categorical"

----------------------------------------------------------------------------
(* The generator of the random module *)

RngSeed(a) == a % 16

RngNext(s) == (5 * s + 3) % 16

\* random.uniform(lo, hi) read off the state reached by the draw
Uniform(s, lo, hi) == lo + ((s \div 4) % (hi - lo + 1))

----------------------------------------------------------------------------
(* Geometries *)

Cells == (0..GridMax) \X (0..GridMax)

Bounds == [minx |-> 0, miny |-> 0, maxx |-> GridMax, maxy |-> GridMax]

\* name, GeoJSON type, interior cells, geodesic area in km2
Square   == [name |-> "square", type |-> "Polygon", inside |-> Cells, area |-> 10]
Triangle == [name |-> "triangle", type |-> "MultiPolygon",
             inside |-> {c \in Cells : c[2] <= c[1]}, area |-> MAX_AOI_KM2]
Sliver   == [name |-> "sliver", type |-> "Polygon", inside |-> {}, area |-> 1]
Huge     == [name |-> "huge", type |-> "Polygon", inside |-> Cells, area |-> MAX_AOI_KM2 + 1]
Flat     == [name |-> "flat", type |-> "Polygon", inside |-> {}, area |-> 0]
Line     == [name |-> "line", type |-> "LineString", inside |-> {}, area |-> 0]

Geoms == {Square, Triangle, Sliver, Huge, Flat, Line}

geodesic_area_km2(g) == IF g.type \in {"Polygon", "MultiPolygon"} THEN g.area ELSE 0

Contains_BoundsOnly(g, p) == p \in Cells

\* poly.contains(Point(x, y)), line 351
Contains(g, p) == p \in g.inside

----------------------------------------------------------------------------
(* Worker threads *)

\* An absent optional value (Python's None) is <<>>, a present one <<v>>.
None == <<>>

Some(v) == <<v>>

NoRequest == [feature_type |-> "", geom |-> Flat, quality |-> ""]

\* The locals of a thread that runs nothing.
IdleThread ==
    [kind |-> "idle", pc |-> "idle",
     \* the request of api_analyze, or the arguments of a direct caller
     req |-> NoRequest, arg_n |-> 0, arg_seed |-> 0, runs |-> <<>>,
     \* locals of api_analyze
     quality |-> "", area_km2 |-> 0, sources_to_run |-> <<>>, n_sources |-> 0,
     requested_samples |-> 0, effective_samples |-> 0,
     pts |-> <<>>, results |-> <<>>, si |-> 0, response |-> None,
     \* locals of analyze_points_for_source
     lyr |-> "", pi |-> 0, counts |-> <<>>, values |-> <<>>, fetches |-> 0,
     \* arguments and result of _pick_attr
     attrs |-> <<>>, preferred_fields |-> <<>>, numeric |-> FALSE, picked |-> None,
     \* arguments and results of the binning of lines 782-786
     step |-> 0, unit |-> <<>>, fvs |-> <<>>, bins |-> <<>>, b_labels |-> <<>>,
     \* locals of random_points_in_polygon
     geom |-> Flat, n |-> 0, seed |-> 0, tries |-> 0, max_tries |-> 0,
     x |-> 0, acc |-> <<>>, ret |-> None]

Set(t, r) == th' = [th EXCEPT ![t] = r]

\* The page as its script leaves it when loaded (lines 1358-1362, 1746): no
\* AOI, no report, no timer; no call of /api/analyze awaited.  An AOI is
\* named by the number of the drawing or edit that made it, 0 is null; a
\* report by the AOI of the request body and the number of the request.
PageLoaded ==
    [activeGeojson |-> 0, lastReport |-> None, analyzeTimer |-> FALSE,
     awaited |-> {}, started |-> 0, shapes |-> 0]

\* A frame of random_points_in_polygon left: its locals are gone.
LeaveSampler(l, ret) ==
    [l EXCEPT !.pc = "rp_done", !.ret = Some(ret),
              !.geom = IdleThread.geom, !.n = 0, !.seed = 0, !.tries = 0,
              !.max_tries = 0, !.x = 0, !.acc = <<>>]

LeaveSource_ConsumePoints(l, entry) ==
    [l EXCEPT !.pc = "src_loop", !.si = @ + 1, !.results = Append(@, entry),
              !.lyr = "", !.pi = 0, !.counts = <<>>, !.values = <<>>, !.fetches = 0,
              !.pts = IF entry.ok THEN Tail(@) ELSE @]

LeaveSource_SkipFailed(l, entry) ==
    [l EXCEPT !.pc = "src_loop", !.si = @ + 1,
              !.results = IF entry.ok THEN Append(@, entry) ELSE @,
              !.lyr = "", !.pi = 0, !.counts = <<>>, !.values = <<>>, !.fetches = 0]

\* A frame of analyze_points_for_source left: its locals are gone.
LeaveSource(l, entry) ==
    [l EXCEPT !.pc = "src_loop", !.si = @ + 1, !.results = Append(@, entry),
              !.lyr = "", !.pi = 0, !.counts = <<>>, !.values = <<>>, !.fetches = 0]

----------------------------------------------------------------------------
(* random_points_in_polygon, lines 334-356 *)

MaxTries(n) == Max(MIN_TRIES, n * TRIES_PER_POINT)

\* line 338: the value handed to random.seed
SeedValue(seed, clock) == IF seed # 0 THEN seed ELSE clock

LoopCond_NoBudget(l) == Len(l.acc) < l.n

\* line 346: the loop condition
LoopCond(l) == Len(l.acc) < l.n /\ l.tries < l.max_tries

\* lines 338-344: seed the shared generator, read the bounds, clear the locals
RpSeed(t) ==
    /\ th[t].pc = "rp_seed"
    /\ \E clock \in now..MaxTime :
          \* time.time() is read only when seed is falsy
          /\ th[t].seed # 0 => clock = now
          /\ now' = clock
          /\ rng' = RngSeed(SeedValue(th[t].seed, clock))
    /\ Set(t, [th[t] EXCEPT !.pc = "rp_loop", !.acc = <<>>, !.tries = 0,
                            !.max_tries = MaxTries(th[t].n)])
    /\ UNCHANGED <<page, cfg, net>>

\* lines 346-348: one more try, x drawn from the shared generator
RpDrawX(t) ==
    /\ th[t].pc = "rp_loop"
    /\ LoopCond(th[t])
    /\ rng' = RngNext(rng)
    /\ Set(t, [th[t] EXCEPT !.pc = "rp_y", !.tries = @ + 1,
                            !.x = Uniform(rng', Bounds.minx, Bounds.maxx)])
    /\ UNCHANGED <<page, cfg, net, now>>

\* lines 349-352: y drawn, the containment test, the point kept if it passes
RpDrawY(t) ==
    /\ th[t].pc = "rp_y"
    /\ rng' = RngNext(rng)
    /\ LET p == <<th[t].x, Uniform(rng', Bounds.miny, Bounds.maxy)>>
       IN  Set(t, [th[t] EXCEPT !.pc = "rp_loop",
                                !.acc = IF Contains(th[t].geom, p) THEN Append(@, p) ELSE @])
    /\ UNCHANGED <<page, cfg, net, now>>

\* lines 354-356 with enough points: return pts
RpReturn(t) ==
    /\ th[t].pc = "rp_loop"
    /\ ~LoopCond(th[t])
    /\ ~(Len(th[t].acc) < th[t].n)
    /\ Set(t, LeaveSampler(th[t], [ok |-> TRUE, pts |-> th[t].acc]))
    /\ UNCHANGED <<page, cfg, net, rng, now>>

\* lines 354-355 with too few points: raise RuntimeError
RpRaise(t) ==
    /\ th[t].pc = "rp_loop"
    /\ ~LoopCond(th[t])
    /\ Len(th[t].acc) < th[t].n
    /\ Set(t, LeaveSampler(th[t], [ok |-> FALSE, pts |-> <<>>]))
    /\ UNCHANGED <<page, cfg, net, rng, now>>

----------------------------------------------------------------------------
(* Texts *)

\* A Python str is the sequence of its characters, each a one-character
\* string; "a_uml" and "u_uml" stand for the letters a and u with diaeresis.
LowerLetters ==
    <<"a", "b", "c", "d", "e", "f", "g", "h", "i", "j", "k", "l",
      "m", "n", "o", "p", "q", "r", "s", "t", "u", "v", "w", "x",
      "y", "z", "a_uml", "u_uml">>

UpperLetters ==
    <<"A", "B", "C", "D", "E", "F", "G", "H", "I", "J", "K", "L",
      "M", "N", "O", "P", "Q", "R", "S", "T", "U", "V", "W", "X",
      "Y", "Z", "A_uml", "U_uml">>

Digits == {"0", "1", "2", "3", "4", "5", "6", "7", "8", "9"}

DigitChars == <<"0", "1", "2", "3", "4", "5", "6", "7", "8", "9">>

Whitespace == {" "}

Letter(c, set) == \E i \in 1..Len(set) : set[i] = c

LetterIndex(c, set) == CHOOSE i \in 1..Len(set) : set[i] = c

\* the sequence s with every element replaced: Map(op, s)[i] = op(s[i])
RECURSIVE Map(_, _)
Map(op(_), s) == IF s = <<>> THEN <<>> ELSE <<op(s[1])>> \o Map(op, Tail(s))

\* the function that takes from[i] to to[i], from index i on
RECURSIVE Pairs(_, _, _)
Pairs(from, to, i) ==
    IF i = Len(from) THEN from[i] :> to[i]
    ELSE (from[i] :> to[i]) @@ Pairs(from, to, i + 1)

ToLower == Pairs(UpperLetters, LowerLetters, 1)

ToUpper == Pairs(LowerLetters, UpperLetters, 1)

LowerChar(c) == IF c \in DOMAIN ToLower THEN ToLower[c] ELSE c

UpperChar(c) == IF c \in DOMAIN ToUpper THEN ToUpper[c] ELSE c

\* str.lower and str.upper
Lower(s) == Map(LowerChar, s)

Upper(s) == Map(UpperChar, s)

\* str.strip
RECURSIVE Strip(_)
Strip(s) ==
    IF s = <<>> THEN s
    ELSE IF s[1] \in Whitespace THEN Strip(Tail(s))
    ELSE IF s[Len(s)] \in Whitespace THEN Strip(SubSeq(s, 1, Len(s) - 1))
    ELSE s

\* s[:n]
Take(s, n) == SubSeq(s, 1, Min(n, Len(s)))

\* sub in s
IsSubstring(sub, s) ==
    \E i \in 0..(Len(s) - Len(sub)) : SubSeq(s, i + 1, i + Len(sub)) = sub

EndsWith(s, suffix) ==
    Len(s) >= Len(suffix) /\ SubSeq(s, Len(s) - Len(suffix) + 1, Len(s)) = suffix

\* s.replace(",", ".")
CommaToDot(s) == LET dot(c) == IF c = "," THEN "." ELSE c IN Map(dot, s)

\* s.split()[0] of a stripped, non-empty text
FirstToken(s) ==
    LET stops == {i \in 1..Len(s) : s[i] \in Whitespace}
    IN  IF stops = {} THEN s
        ELSE SubSeq(s, 1, (CHOOSE i \in stops : \A j \in stops : i <= j) - 1)

AllDigits(s) == s # <<>> /\ \A i \in 1..Len(s) : s[i] \in Digits

\* SOURCES[src_id]["preferred_fields"], lines 107-173
preferred_fields(sid) ==
    IF sid = "buek1000en" THEN
        <<<<"n", "a", "m", "e">>,
          <<"t", "i", "t", "l", "e">>,
          <<"s", "o", "i", "l">>,
          <<"u", "n", "i", "t">>,
          <<"l", "e", "i", "t">>,
          <<"p", "r", "o", "f", "i", "l">>,
          <<"b", "e", "s", "c", "h", "r", "e", "i", "b", "u", "n", "g">>,
          <<"b", "e", "z", "e", "i", "c", "h", "n", "u", "n", "g">>>>
    ELSE IF sid = "boart1000ob" THEN
        <<<<"b", "o", "d", "a", "r", "t", "_", "g", "r">>,
          <<"b", "o", "d", "a", "r", "t", "g", "r">>,
          <<"b", "o", "d", "a", "r", "t">>,
          <<"b", "o", "d", "e", "n", "a", "r", "t">>,
          <<"t", "e", "x", "t", "u", "r">>,
          <<"b", "o", "d", "e", "n", "a", "r", "t", "_", "g", "r">>,
          <<"b", "o", "d", "e", "n", "a", "r", "t", "e", "n", "g", "r", "u", "p", "p", "e">>,
          <<"b", "o", "d", "e", "n", "a", "r", "t", "g", "r", "u", "p", "p", "e">>,
          <<"b", "o", "d", "a", "r", "t", "_", "t", "x", "t">>,
          <<"b", "o", "d", "a", "r", "t", "_", "b", "e", "z">>>>
    ELSE IF sid = "nfkwe1000" THEN
        <<<<"n", "f", "k", "w", "e">>,
          <<"n", "f", "k">>,
          <<"v", "a", "l", "u", "e">>,
          <<"p", "i", "x", "e", "l">>,
          <<"r", "a", "s", "t", "e", "r">>,
          <<"m", "m">>>>
    ELSE IF sid = "physgru1000" THEN
        <<<<"p", "h", "y", "s", "g", "r", "u">>,
          <<"g", "r", "u", "e", "n", "d">>,
          <<"g", "r", "u_uml", "n", "d">>,
          <<"d", "e", "p", "t", "h">>,
          <<"v", "a", "l", "u", "e">>,
          <<"p", "i", "x", "e", "l">>,
          <<"d", "m">>>>
    ELSE
        <<<<"s", "q", "r">>,
          <<"v", "a", "l", "u", "e">>,
          <<"r", "a", "t", "i", "n", "g">>,
          <<"q", "u", "a", "l", "i", "t", "y">>,
          <<"b", "o", "d", "e", "n", "w", "e", "r", "t">>,
          <<"i", "n", "d", "e", "x">>>>

\* the hints of all sources, and their canonical forms computed once
AllHints ==
    preferred_fields("buek1000en") \o preferred_fields("boart1000ob")
        \o preferred_fields("nfkwe1000") \o preferred_fields("physgru1000")
        \o preferred_fields("sqr1000")

CanonOfHints == Pairs(AllHints, Map(LAMBDA h : Lower(Strip(h)), AllHints), 1)

\* _canon_key, lines 205-206
canon_key(k) == IF k \in DOMAIN CanonOfHints THEN CanonOfHints[k] ELSE Lower(Strip(k))

\* the alternatives of TECH_FIELD_RX, lines 76-80, spelled out; "id$" is apart
TECH_WORDS ==
    {<<"s", "h", "a", "p", "e", "a", "r", "e", "a">>,
     <<"s", "h", "a", "p", "e", "_", "a", "r", "e", "a">>,
     <<"s", "h", "a", "p", "e", "l", "e", "n">>,
     <<"s", "h", "a", "p", "e", "_", "l", "e", "n">>,
     <<"o", "b", "j", "e", "c", "t", "i", "d">>,
     <<"f", "i", "d">>,
     <<"g", "i", "d">>,
     <<"g", "l", "o", "b", "a", "l", "i", "d">>,
     <<"p", "e", "r", "i", "m", "e", "t", "e", "r">>,
     <<"c", "r", "e", "a", "t", "e", "d">>,
     <<"u", "p", "d", "a", "t", "e", "d">>,
     <<"e", "d", "i", "t", "o", "r">>,
     <<"t", "i", "m", "e", "s", "t", "a", "m", "p">>,
     <<"s", "t", "_", "a", "r", "e", "a">>,
     <<"s", "t", "_", "l", "e", "n", "g", "t", "h">>,
     <<"g", "e", "o", "m">>,
     <<"g", "e", "o", "m", "e", "t", "r", "y">>}

\* TECH_FIELD_RX.search(k): re.IGNORECASE, anywhere in the name
TechSearch(lowered) ==
    \/ \E w \in TECH_WORDS : IsSubstring(w, lowered)
    \/ EndsWith(lowered, <<"i", "d">>)

TECH_FIELD_RX(k) == TechSearch(Lower(k))

\* BOART_CODE_TO_LABEL_DE, lines 83-100
BOART_CODE_TO_LABEL_DE ==
    <<[key |-> <<"s", "s">>,
       label |-> <<"R", "e", "i", "n", "s", "a", "n", "d", "e", " ", "(", "s", "s", ")">>],
      [key |-> <<"l", "s">>,
       label |-> <<"L", "e", "h", "m", "s", "a", "n", "d", "e", " ", "(", "l", "s", ")">>],
      [key |-> <<"u", "s">>,
       label |-> <<"S", "c", "h", "l", "u", "f", "f", "s", "a", "n", "d", "e", " ", "(", "u", "s", ")">>],
      [key |-> <<"s", "l">>,
       label |-> <<"S", "a", "n", "d", "l", "e", "h", "m", "e", " ", "(", "s", "l", ")">>],
      [key |-> <<"l", "l">>,
       label |-> <<"N", "o", "r", "m", "a", "l", "l", "e", "h", "m", "e", " ", "(", "l", "l", ")">>],
      [key |-> <<"t", "l">>,
       label |-> <<"T", "o", "n", "l", "e", "h", "m", "e", " ", "(", "t", "l", ")">>],
      [key |-> <<"l", "u">>,
       label |-> <<"L", "e", "h", "m", "s", "c", "h", "l", "u", "f", "f", "e", " ", "(", "l", "u", ")">>],
      [key |-> <<"t", "u">>,
       label |-> <<"T", "o", "n", "s", "c", "h", "l", "u", "f", "f", "e", " ", "(", "t", "u", ")">>],
      [key |-> <<"u", "t">>,
       label |-> <<"S", "c", "h", "l", "u", "f", "f", "t", "o", "n", "e", " ", "(", "u", "t", ")">>],
      [key |-> <<"m", "o">>,
       label |-> <<"M", "o", "o", "r", "e", " ", "(", "m", "o", ")">>],
      [key |-> <<"w", "a", "t", "t">>,
       label |-> <<"W", "a", "t", "t">>],
      [key |-> <<"s", "i", "e", "d", "l", "u", "n", "g">>,
       label |-> <<"S", "i", "e", "d", "l", "u", "n", "g">>],
      [key |-> <<"a", "b", "b", "a", "u">>,
       label |-> <<"A", "b", "b", "a", "u", "f", "l", "a_uml", "c", "h", "e", "n">>],
      [key |-> <<"g", "e", "w", "a", "e", "s", "s", "e", "r">>,
       label |-> <<"G", "e", "w", "a_uml", "s", "s", "e", "r">>],
      [key |-> <<"g", "e", "w", "a_uml", "s", "s", "e", "r">>,
       label |-> <<"G", "e", "w", "a_uml", "s", "s", "e", "r">>],
      [key |-> <<"s", "o", "n", "s", "t", "i", "g", "e">>,
       label |-> <<"S", "o", "n", "s", "t", "i", "g", "e", " ", "F", "l", "a_uml", "c", "h", "e", "n">>]>>

BoartKeys == {BOART_CODE_TO_LABEL_DE[i].key : i \in 1..Len(BOART_CODE_TO_LABEL_DE)}

BoartLabel(key) ==
    BOART_CODE_TO_LABEL_DE[CHOOSE i \in 1..Len(BOART_CODE_TO_LABEL_DE) :
                               BOART_CODE_TO_LABEL_DE[i].key = key].label

----------------------------------------------------------------------------
(* Values and their parsing, lines 205-246 and 302-305 *)

\* Numbers are counted in tenths: 173 is 17.3.  The texts of the model carry
\* at most one decimal, no exponent and no "inf" or "nan".
Null == [t |-> "null", n |-> 0, s |-> <<>>]

Num(n) == [t |-> "num", n |-> n, s |-> <<>>]

Str(s) == [t |-> "str", n |-> 0, s |-> s]

\* re.fullmatch(r"\d+(\.\d+)?", u)
UnsignedDecimal(u) ==
    LET dots == {i \in 1..Len(u) : u[i] = "."}
    IN  IF dots = {} THEN AllDigits(u)
        ELSE /\ Cardinality(dots) = 1
             /\ LET d == CHOOSE i \in dots : TRUE
                IN  AllDigits(SubSeq(u, 1, d - 1)) /\ AllDigits(SubSeq(u, d + 1, Len(u)))

\* re.fullmatch(r"-?\d+(\.\d+)?", u)
SignedDecimal(u) ==
    IF u # <<>> /\ u[1] = "-" THEN UnsignedDecimal(Tail(u)) ELSE UnsignedDecimal(u)

\* _looks_numeric, lines 209-215
looks_numeric(v) ==
    IF v.t = "num" THEN TRUE
    ELSE IF v.t = "str" THEN SignedDecimal(CommaToDot(Strip(v.s)))
    ELSE FALSE

DigitValue(c) == LetterIndex(c, DigitChars) - 1

RECURSIVE NatOf(_)
NatOf(u) == IF u = <<>> THEN 0 ELSE 10 * NatOf(SubSeq(u, 1, Len(u) - 1)) + DigitValue(u[Len(u)])

\* the tenths written by an unsigned decimal
TenthsOf(u) ==
    LET dots == {i \in 1..Len(u) : u[i] = "."}
    IN  IF dots = {} THEN 10 * NatOf(u)
        ELSE LET d == CHOOSE i \in dots : TRUE
             IN  10 * NatOf(SubSeq(u, 1, d - 1)) + DigitValue(u[d + 1])

\* float(u) of lines 223-228: the value, or None where float raises
ParseFloat(u) ==
    IF ~SignedDecimal(u) THEN <<>>
    ELSE IF u[1] = "-" THEN <<0 - TenthsOf(Tail(u))>> ELSE <<TenthsOf(u)>>

\* the conversion without the decimal comma of line 222
to_float_CommaKept(v) ==
    IF v.t = "num" THEN <<v.n>>
    ELSE IF v.t = "str" THEN ParseFloat(Strip(v.s))
    ELSE <<>>

\* _to_float, lines 218-229
to_float(v) ==
    IF v.t = "num" THEN <<v.n>>
    ELSE IF v.t = "str" THEN ParseFloat(CommaToDot(Strip(v.s)))
    ELSE <<>>

RECURSIVE DigitsOf(_)
DigitsOf(n) ==
    IF n < 10 THEN <<DigitChars[n + 1]>>
    ELSE Append(DigitsOf(n \div 10), DigitChars[(n % 10) + 1])

Abs(n) == IF n < 0 THEN 0 - n ELSE n

\* str(fv) of a float
FloatStr(v) ==
    (IF v < 0 THEN <<"-">> ELSE <<>>)
        \o DigitsOf(Abs(v) \div 10) \o <<".">> \o <<DigitChars[(Abs(v) % 10) + 1]>>

\* str(v) of evaluate_point, line 687: of a str the str itself
ValueStr(v) ==
    IF v.t = "str" THEN v.s
    ELSE IF v.n % 10 = 0 THEN (IF v.n < 0 THEN <<"-">> ELSE <<>>) \o DigitsOf(Abs(v.n) \div 10)
    ELSE FloatStr(v.n)

\* the nearest whole multiple of den to num, a tie going to the even one, as
\* round() and the float formats do
\* rounding with ties away from zero, which round() of Python 3 does not do
RoundHalfUp(num, den) ==
    LET q == num \div den
        r == num % den
    IN  IF 2 * r < den THEN q ELSE q + 1

RoundHalfEven(num, den) ==
    LET q == num \div den
        r == num % den
    IN  IF 2 * r < den THEN q
        ELSE IF 2 * r > den THEN q + 1
        ELSE IF q % 2 = 0 THEN q ELSE q + 1

\* _format_numeric, lines 302-305, with 0 or 1 decimals
format_numeric(value, unit, decimals) ==
    LET digits == IF decimals = 0
                  THEN LET w == RoundHalfEven(value, 10)
                       IN  (IF w < 0 THEN <<"-">> ELSE <<>>) \o DigitsOf(Abs(w))
                  ELSE FloatStr(value)
    IN  IF unit # <<>> THEN digits \o <<" ">> \o unit ELSE digits

AsciiLetters == {LowerLetters[i] : i \in 1..26} \cup {UpperLetters[i] : i \in 1..26}

\* _is_probably_code, lines 232-242
is_probably_code(s) ==
    LET t == Strip(s)
    IN  /\ s # <<>>
        /\ Len(t) <= 8
        /\ t # <<>> /\ \A i \in 1..Len(t) : t[i] \in AsciiLetters \cup Digits \cup {"_", "-"}
        /\ ~AllDigits(t)

\* _normalize_code, lines 245-246
normalize_code(s) == Upper(Strip(s))

----------------------------------------------------------------------------
(* _pick_attr, lines 249-293 *)

\* An attribute map is the sequence of its fields [k, v] in the order of the
\* upstream response; the names of one map are distinct.

\* the test every tier ends with: a value, no technical name, the wanted kind
\* the conditions on a returned field without the one on its kind
Acceptable_AnyKind(e, numeric) ==
    /\ e.v # Null
    /\ ~TECH_FIELD_RX(e.k)

Acceptable(e, numeric) ==
    /\ e.v # Null
    /\ ~TECH_FIELD_RX(e.k)
    /\ numeric <=> looks_numeric(e.v)

\* the fields in map order, each with what the three loops ask of it: its
\* canonical name (_canon_key(k)) and whether its value may be returned
Candidates(attrs, numeric) ==
    Map(LAMBDA e : [k |-> e.k, v |-> e.v, canon |-> canon_key(e.k),
                    ok |-> Acceptable(e, numeric)], attrs)

\* lower_map.get(ck), lines 253 and 257: of the names with one canonical form
\* the dict comprehension keeps the last; 0 for no name
LowerMapGet(fields, ck) ==
    LET same == {i \in 1..Len(fields) : fields[i].canon = ck}
    IN  IF same = {} THEN 0 ELSE CHOOSE i \in same : \A j \in same : j <= i

\* lines 256-264: the hints whose exact match is returned
ExactHits(fields, hints) ==
    {j \in 1..Len(hints) :
        LET i == LowerMapGet(fields, hints[j])
        IN  i # 0 /\ fields[i].ok}

\* lines 268-280: the (hint, field) pairs whose substring match is returned
SubstringHits(fields, hints) ==
    {h \in (1..Len(hints)) \X (1..Len(fields)) :
        /\ hints[h[1]] # <<>>
        /\ fields[h[2]].ok
        /\ IsSubstring(hints[h[1]], fields[h[2]].canon)}

\* lines 283-291: the fields the fallback returns
FallbackHits(fields) == {i \in 1..Len(fields) : fields[i].ok}

MaxOf(S) == CHOOSE i \in S : \A j \in S : i >= j

MinOf(S) == CHOOSE i \in S : \A j \in S : i <= j

\* the first pair, fields before hints
FirstPair_FieldsFirst(S) ==
    CHOOSE h \in S : \A g \in S : h[2] < g[2] \/ (h[2] = g[2] /\ h[1] <= g[1])

\* the first pair, hints before fields
FirstPair(S) ==
    CHOOSE h \in S : \A g \in S : h[1] < g[1] \/ (h[1] = g[1] /\ h[2] <= g[2])

Picked(e) == [k |-> e.k, v |-> e.v]

NothingPicked == [k |-> <<>>, v |-> Null]

\* the three loops of _pick_attr over the fields and the canonical hints
PickFrom(fields, hints) ==
    IF fields = <<>> THEN NothingPicked
    ELSE IF ExactHits(fields, hints) # {}
    THEN Picked(fields[LowerMapGet(fields, hints[MinOf(ExactHits(fields, hints))])])
    ELSE IF SubstringHits(fields, hints) # {}
    THEN Picked(fields[FirstPair(SubstringHits(fields, hints))[2]])
    ELSE IF FallbackHits(fields) # {} THEN Picked(fields[MinOf(FallbackHits(fields))])
    ELSE NothingPicked

\* _pick_attr, lines 249-293
pick_attr(attrs, preferred, numeric) ==
    PickFrom(Candidates(attrs, numeric), Map(canon_key, preferred))

----------------------------------------------------------------------------
(* The upstream services *)

\* What the services hold: net is "down", or the data they serve.
DatasetOrder == <<"flaky", "bare", "text", "blank", "spelt">>

Datasets == {DatasetOrder[i] : i \in 1..Len(DatasetOrder)}

\* pick_default_layer, lines 424-440: a layer of the capabilities, or "0" when
\* they cannot be fetched; never the empty string.
pick_default_layer(sid) == IF net = "down" THEN "0" ELSE sid

\* texts of the upstream data
Txt ==
    [OBJECTID |-> <<"O", "B", "J", "E", "C", "T", "I", "D">>,
     NAME |-> <<"N", "A", "M", "E">>,
     BODART_GR |-> <<"B", "O", "D", "A", "R", "T", "_", "G", "R">>,
     NFKWE |-> <<"N", "F", "K", "W", "E">>,
     Value |-> <<"V", "a", "l", "u", "e">>,
     GRAY_INDEX |-> <<"G", "R", "A", "Y", "_", "I", "N", "D", "E", "X">>,
     Braunerde |-> <<"B", "r", "a", "u", "n", "e", "r", "d", "e">>,
     Podsol |-> <<"P", "o", "d", "s", "o", "l">>,
     Ls |-> <<"L", "s">>,
     Gewaesser |-> <<"G", "e", "w", "a_uml", "s", "s", "e", "r">>,
     Gewaesser_ae |-> <<"G", "e", "w", "a", "e", "s", "s", "e", "r">>,
     x7 |-> <<"x", "7">>,
     sandiger_Lehm |-> <<"s", "a", "n", "d", "i", "g", "e", "r", " ", "L", "e", "h", "m">>,
     Gley_Nr_7 |-> <<"G", "l", "e", "y", " ", "N", "r", " ", "7">>,
     ls_Lehmsand |-> <<"l", "s", " ", "L", "e", "h", "m", "s", "a", "n", "d">>,
     na |-> <<"n", "/", "a">>,
     Unbekannt |-> <<"U", "n", "b", "e", "k", "a", "n", "n", "t">>,
     mm |-> <<"m", "m">>,
     dm |-> <<"d", "m">>]

\* SOURCES[src_id]["unit"], lines 107-173
unit(sid) == IF sid = "nfkwe1000" THEN Txt.mm ELSE IF sid = "physgru1000" THEN Txt.dm ELSE <<>>

\* What the layer of a source holds at a location.
CategoryAt(sid, p) ==
    IF sid = "boart1000ob"
    THEN (IF p = <<0, 0>> THEN Txt.Ls
          ELSE IF p = <<1, 0>> THEN Txt.Gewaesser
          ELSE IF p = <<0, 1>> THEN Txt.x7
          ELSE Txt.sandiger_Lehm)
    ELSE IF (p[1] + p[2]) % 2 = 0 THEN Txt.Braunerde ELSE Txt.Podsol

\* in tenths
NumberAt(sid, p) == 120 + 53 * p[1] + 25 * p[2]

DotToComma(s) == LET comma(c) == IF c = "." THEN "," ELSE c IN Map(comma, s)

\* the name of the field that carries the value of a source
ValueField(sid) ==
    IF sid = "buek1000en" THEN Txt.NAME
    ELSE IF sid = "boart1000ob" THEN Txt.BODART_GR
    ELSE IF sid = "nfkwe1000" THEN Txt.NFKWE
    ELSE IF sid = "physgru1000" THEN Txt.Value
    ELSE Txt.GRAY_INDEX

\* properties of the first feature at a location: a number as a JSON number in
\* the west, as a text with a decimal comma in the east
PropertiesAt(sid, p) ==
    IF ValueType(sid) = "numeric"
    THEN <<[k |-> Txt.OBJECTID, v |-> Num(10)],
           [k |-> ValueField(sid),
            v |-> IF p[1] = 0 THEN Num(NumberAt(sid, p))
                  ELSE Str(DotToComma(FloatStr(NumberAt(sid, p))))]>>
    ELSE <<[k |-> ValueField(sid), v |-> Str(CategoryAt(sid, p))],
           [k |-> Txt.OBJECTID, v |-> Num(10)]>>

\* properties of the first feature at a location of a layer whose classes are
\* spelt in two ways, with the umlaut in the west and without it in the east
SpeltPropertiesAt(sid, p) ==
    IF ValueType(sid) = "numeric" THEN PropertiesAt(sid, p)
    ELSE <<[k |-> ValueField(sid),
            v |-> Str(IF p[1] = 0 THEN Txt.Gewaesser ELSE Txt.Gewaesser_ae)],
           [k |-> Txt.OBJECTID, v |-> Num(10)]>>

\* the body of a text/plain answer at a location
BodyAt(sid, p) ==
    IF ValueType(sid) = "numeric"
    THEN (IF p[1] = 0 THEN DotToComma(FloatStr(NumberAt(sid, p))) ELSE Txt.na)
    ELSE IF sid = "boart1000ob" THEN Txt.ls_Lehmsand ELSE Txt.Gley_Nr_7

\* wms_getfeatureinfo_point, lines 482-529, when the HTTP call is answered:
\* the format, the features of a JSON body, the text of another body
wms_getfeatureinfo_point(data, sid, p) ==
    IF data = "blank" THEN [format |-> "text", features |-> <<>>, body |-> <<>>]
    ELSE IF data = "text" THEN [format |-> "text", features |-> <<>>, body |-> BodyAt(sid, p)]
    ELSE IF data = "bare"
    THEN [format |-> "json", features |-> <<<<[k |-> Txt.OBJECTID, v |-> Num(10)]>>>>,
          body |-> <<>>]
    ELSE IF data = "spelt"
    THEN [format |-> "json", features |-> <<SpeltPropertiesAt(sid, p)>>, body |-> <<>>]
    ELSE [format |-> "json", features |-> <<PropertiesAt(sid, p)>>, body |-> <<>>]

----------------------------------------------------------------------------
(* evaluate_point, lines 667-702 *)

RECURSIVE Join(_, _)
Join(parts, sep) ==
    IF parts = <<>> THEN <<>>
    ELSE IF Len(parts) = 1 THEN parts[1]
    ELSE parts[1] \o sep \o Join(Tail(parts), sep)

\* repr of a JSON value
ReprValue(v) ==
    IF v.t = "null" THEN <<"N", "o", "n", "e">>
    ELSE IF v.t = "str" THEN <<"'">> \o v.s \o <<"'">>
    ELSE ValueStr(v)

\* str(data) of a parsed JSON body {"features": [{"properties": {...}}, ...]}
ReprData(features) ==
    LET field(e) == <<"'">> \o e.k \o <<"'", ":", " ">> \o ReprValue(e.v)
        props(a) == <<"{">> \o Join(Map(field, a), <<",", " ">>) \o <<"}">>
        feat(a)  == <<"{", "'", "p", "r", "o", "p", "e", "r", "t", "i", "e", "s", "'", ":", " ">> \o props(a) \o <<"}">>
    IN  <<"{", "'", "f", "e", "a", "t", "u", "r", "e", "s", "'", ":", " ", "[">>
            \o Join(Map(feat, features), <<",", " ">>)
            \o <<"]", "}">>

\* str(fi.get("data") or ""), line 692
DataStr(fi) == IF fi.format = "json" THEN ReprData(fi.features) ELSE fi.body

evaluate_point(sid, fi) ==
    LET want_numeric == ValueType(sid) = "numeric"
        props  == fi.features[1]
        picked == pick_attr(props, preferred_fields(sid), want_numeric)
        s      == IF picked.v # Null THEN Strip(ValueStr(picked.v)) ELSE <<>>
        txt    == Strip(DataStr(fi))
        first  == IF txt # <<>> THEN FirstToken(txt) ELSE <<>>
        Found(code, label, value, field) ==
            [ok |-> TRUE, code |-> code, label |-> label, value |-> value,
             picked_field |-> field]
    IN  \* lines 675-690: the first feature of a JSON answer
        IF fi.format = "json" /\ fi.features # <<>> /\ want_numeric /\ to_float(picked.v) # <<>>
        THEN Found(<<>>, FloatStr(to_float(picked.v)[1]), to_float(picked.v), picked.k)
        ELSE IF fi.format = "json" /\ fi.features # <<>> /\ s # <<>>
        THEN Found(IF is_probably_code(s) THEN normalize_code(s) ELSE <<>>,
                   Take(s, 220), <<>>, picked.k)
        \* lines 692-702: the text of the answer
        ELSE IF want_numeric /\ to_float(Str(txt)) # <<>>
        THEN Found(<<>>, FloatStr(to_float(Str(txt))[1]), to_float(Str(txt)), <<>>)
        ELSE Found(IF is_probably_code(first) THEN normalize_code(first) ELSE <<>>,
                   IF txt # <<>> THEN Take(txt, 220) ELSE Txt.Unbekannt, <<>>, <<>>)

----------------------------------------------------------------------------
(* Aggregation, lines 705-848 *)

\* SOURCES[src_id]["bin_step"], lines 107-173, in tenths; 0 for None
bin_step(sid) == IF sid = "nfkwe1000" THEN 50 ELSE IF sid \in NumericSources THEN 10 ELSE 0

\* the multiple of step below the value
bin_numeric_Floor(value, step) ==
    IF step <= 0 THEN value ELSE (value \div step) * step

\* _bin_numeric, lines 296-299: the nearest multiple of step, a tie going to
\* the even multiple as Python's round does
bin_numeric(value, step) ==
    IF step <= 0 THEN value ELSE RoundHalfEven(value, step) * step

\* counts[key] = {..., "count": 1} whether the key is new or not
Bump_Overwriting(counts, key, code, label) ==
    IF \E i \in 1..Len(counts) : counts[i].key = key
    THEN counts
    ELSE Append(counts, [key |-> key, code |-> code, label |-> label, count |-> 1])

\* counts[key]["count"] += 1, the key entered at the end when it is new
Bump(counts, key, code, label) ==
    IF \E i \in 1..Len(counts) : counts[i].key = key
    THEN [i \in 1..Len(counts) |->
             IF counts[i].key = key
             THEN [counts[i] EXCEPT !.count = @ + 1] ELSE counts[i]]
    ELSE Append(counts, [key |-> key, code |-> code, label |-> label, count |-> 1])

\* the bucket with the dictionary looked up without lower-casing
CategoricalBucket_CaseSensitive(sid, ev) ==
    LET code  == Strip(ev.code)
        label == Strip(IF ev.label # <<>> THEN ev.label ELSE Txt.Unbekannt)
        m     == IF sid # "boart1000ob" THEN [code |-> code, label |-> label]
                 ELSE IF code # <<>> /\ code \in BoartKeys
                 THEN [code |-> code, label |-> BoartLabel(code)]
                 ELSE IF label \in BoartKeys THEN [code |-> label, label |-> BoartLabel(label)]
                 ELSE [code |-> code, label |-> label]
    IN  [key |-> IF m.code # <<>> THEN Upper(m.code) ELSE m.label,
         code |-> Upper(m.code), label |-> m.label]

\* lines 730-746: the bucket a point of a categorical source is counted in
CategoricalBucket(sid, ev) ==
    LET code  == Lower(Strip(ev.code))
        label == Strip(IF ev.label # <<>> THEN ev.label ELSE Txt.Unbekannt)
        l0    == Lower(Strip(label))
        m     == IF sid # "boart1000ob" THEN [code |-> code, label |-> label]
                 ELSE IF code # <<>> /\ code \in BoartKeys
                 THEN [code |-> code, label |-> BoartLabel(code)]
                 ELSE IF l0 \in BoartKeys THEN [code |-> l0, label |-> BoartLabel(l0)]
                 ELSE [code |-> code, label |-> label]
    IN  [key |-> IF m.code # <<>> THEN Upper(m.code) ELSE m.label,
         code |-> Upper(m.code), label |-> m.label]

\* lines 773-787: the value of a point of a numeric source, None when it has none
NumericValue(ev) == IF ev.value # <<>> THEN ev.value ELSE to_float(Str(ev.label))

\* lines 782-786: the label of the bin of a value
bin_label(fv, step, unit_of_source) ==
    IF step # 0
    THEN format_numeric(bin_numeric(fv, step), unit_of_source, IF step >= 10 THEN 0 ELSE 1)
    ELSE format_numeric(fv, unit_of_source, 1)

BinLabel(sid, fv) == bin_label(fv, bin_step(sid), unit(sid))

\* lines 729-746 and 771-787: what one answered point adds to the counts and
\* values of its source; a point of a numeric source without a value adds nothing
PointEntry(sid, fi) ==
    LET ev == evaluate_point(sid, fi)
        v  == NumericValue(ev)
    IN  IF ValueType(sid) # "numeric"
        THEN [counted |-> TRUE, bucket |-> CategoricalBucket(sid, ev), value |-> 0]
        ELSE IF v = <<>>
        THEN [counted |-> FALSE, bucket |-> [key |-> <<>>, code |-> <<>>, label |-> <<>>],
              value |-> 0]
        ELSE [counted |-> TRUE,
              bucket |-> [key |-> BinLabel(sid, v[1]), code |-> <<>>,
                          label |-> BinLabel(sid, v[1])],
              value |-> v[1]]

\* The upstream data do not change while a request runs: the entries of all
\* locations, for the data served and the sources, numbered by EntryIndex.
EntryIndex(d, sid, p) ==
    ((LetterIndex(d, DatasetOrder) - 1) * Len(RUN_ORDER(TRUE))
        + LetterIndex(sid, RUN_ORDER(TRUE)) - 1) * Cardinality(Cells)
    + p[2] * (GridMax + 1) + p[1] + 1

Entries ==
    [i \in 1..(Len(DatasetOrder) * Len(RUN_ORDER(TRUE)) * Cardinality(Cells)) |->
        LET c   == (i - 1) % Cardinality(Cells)
            sid == RUN_ORDER(TRUE)[(((i - 1) \div Cardinality(Cells)) % Len(RUN_ORDER(TRUE))) + 1]
            d   == DatasetOrder[((i - 1) \div (Cardinality(Cells) * Len(RUN_ORDER(TRUE)))) + 1]
        IN  PointEntry(sid, wms_getfeatureinfo_point(d, sid,
                                                     <<c % (GridMax + 1), c \div (GridMax + 1)>>))]

\* sorted(values, key=count, reverse=True): stable, equal counts keep their order
\* a sort that puts a bucket before the earlier buckets of the same count
RECURSIVE SortDesc_TiesReversed(_)
SortDesc_TiesReversed(s) ==
    IF Len(s) <= 1 THEN s
    ELSE LET last == s[Len(s)]
             rest == SortDesc_TiesReversed(SubSeq(s, 1, Len(s) - 1))
             k    == Cardinality({i \in 1..Len(rest) : rest[i].count > last.count})
         IN  SubSeq(rest, 1, k) \o <<last>> \o SubSeq(rest, k + 1, Len(rest))

RECURSIVE SortDesc(_)
SortDesc(s) ==
    IF Len(s) <= 1 THEN s
    ELSE LET last == s[Len(s)]
             rest == SortDesc(SubSeq(s, 1, Len(s) - 1))
             k    == Cardinality({i \in 1..Len(rest) : rest[i].count >= last.count})
         IN  SubSeq(rest, 1, k) \o <<last>> \o SubSeq(rest, k + 1, Len(rest))

RECURSIVE Total(_)
Total(s) == IF s = <<>> THEN 0 ELSE s[1].count + Total(Tail(s))

\* A share is the fraction num/den it is computed from, 100.0 * (count / total).
\* The floats of the code stand for it well enough for round(share, 2): where
\* the fraction is a tie of the second decimal (total 32 or 64 for totals up
\* to 80) the floats are exact, and elsewhere the fraction is more than
\* 0.00006 away from a tie.
Share(count, total) == [num |-> 100 * count, den |-> total]

\* round(share, 2) and round(100.0 - share, 2), in hundredths
RoundedPct(share) == RoundHalfEven(100 * share.num, share.den)

RoundedRest(share) == RoundHalfEven(100 * (100 * share.den - share.num), share.den)

\* the shares taken from the number of buckets instead of the number of points
summarize_distribution_PerBucket(values) ==
    LET entry(v) == [code |-> v.code, label |-> v.label, count |-> v.count,
                     share |-> Share(v.count, Max(Len(values), 1))]
    IN  Map(entry, SortDesc(values))

\* summarize_distribution, lines 705-715, and lines 812-815
summarize_distribution(values) ==
    LET total == IF Total(values) # 0 THEN Total(values) ELSE 1
        entry(v) == [code |-> v.code, label |-> v.label, count |-> v.count,
                     share |-> Share(v.count, total)]
    IN  Map(entry, SortDesc(values))

MinValue(values) == CHOOSE v \in {values[i] : i \in 1..Len(values)} :
                        \A i \in 1..Len(values) : v <= values[i]

MaxValue(values) == CHOOSE v \in {values[i] : i \in 1..Len(values)} :
                        \A i \in 1..Len(values) : v >= values[i]

RECURSIVE Sum(_)
Sum(values) == IF values = <<>> THEN 0 ELSE values[1] + Sum(Tail(values))

\* the statistics taken from the values of the bins
Stats_OfBins(sid, values) ==
    LET binned == Map(LAMBDA v : IF bin_step(sid) # 0 THEN bin_numeric(v, bin_step(sid)) ELSE v,
                      values)
    IN  [unit |-> unit(sid), mean |-> RoundHalfEven(100 * Sum(binned), Len(binned)),
         min |-> 100 * MinValue(binned), max |-> 100 * MaxValue(binned), n |-> Len(binned)]

\* lines 841-847: mean, min and max rounded to 3 decimals, in thousandths
Stats(sid, values) ==
    [unit |-> unit(sid), mean |-> RoundHalfEven(100 * Sum(values), Len(values)),
     min |-> 100 * MinValue(values), max |-> 100 * MaxValue(values), n |-> Len(values)]

\* the result with the only bucket of the degenerate case left out
SourceResult_EmptyDistribution(sid, lyr, counts, values) ==
    IF ValueType(sid) = "numeric" /\ values = <<>>
    THEN [ok |-> TRUE, src_id |-> sid, layer |-> lyr, dominant_label |-> Txt.Unbekannt,
          dominant_share_pct |-> 0, heterogeneity_pct |-> 0,
          distribution |-> <<>>, stats |-> <<>>]
    ELSE LET dist == summarize_distribution(counts)
         IN  [ok |-> TRUE, src_id |-> sid, layer |-> lyr,
              dominant_label |-> dist[1].label,
              dominant_share_pct |-> RoundedPct(dist[1].share),
              heterogeneity_pct |-> RoundedRest(dist[1].share),
              distribution |-> SubSeq(dist, 1, Min(12, Len(dist))),
              stats |-> IF ValueType(sid) = "numeric" THEN <<Stats(sid, values)>> ELSE <<>>]

\* the result dictionary of analyze_points_for_source, lines 748-765 and 789-848
SourceResult(sid, lyr, counts, values) ==
    IF ValueType(sid) = "numeric" /\ values = <<>>
    THEN [ok |-> TRUE, src_id |-> sid, layer |-> lyr, dominant_label |-> Txt.Unbekannt,
          dominant_share_pct |-> 0, heterogeneity_pct |-> 0,
          distribution |-> <<[code |-> <<>>, label |-> Txt.Unbekannt, count |-> 0,
                              share |-> Share(0, 1)]>>,
          stats |-> <<>>]
    ELSE LET dist     == summarize_distribution(counts)
             dominant == IF dist # <<>> THEN dist[1]
                         ELSE [code |-> <<>>, label |-> Txt.Unbekannt, count |-> 0,
                               share |-> Share(0, 1)]
         IN  [ok |-> TRUE, src_id |-> sid, layer |-> lyr,
              dominant_label |-> dominant.label,
              dominant_share_pct |-> RoundedPct(dominant.share),
              heterogeneity_pct |-> RoundedRest(dominant.share),
              distribution |-> SubSeq(dist, 1, Min(12, Len(dist))),
              stats |-> IF ValueType(sid) = "numeric" THEN <<Stats(sid, values)>> ELSE <<>>]

\* the error entry of api_analyze, lines 956 and 960
SourceError(sid, msg) == [ok |-> FALSE, src_id |-> sid, error |-> msg]

----------------------------------------------------------------------------
(* api_analyze, lines 916-976 *)

AoiTooLarge_OffByOne(area) == area > MAX_AOI_KM2 + 1

\* line 936
AoiTooLarge(area) == area > MAX_AOI_KM2

RequestedSamples_NoFloor(quality, max_samples) ==
    Min(QUALITY_TO_SAMPLES[quality], max_samples)

\* lines 942-943
RequestedSamples(quality, max_samples) ==
    Max(MIN_SAMPLES, Min(QUALITY_TO_SAMPLES[quality], max_samples))

MaxSamplesBudget_NoFloor(max_feature_calls, n_sources) ==
    max_feature_calls \div n_sources

MaxSamplesBudget_RoundedUp(max_feature_calls, n_sources) ==
    Max(MIN_SAMPLES, (max_feature_calls + n_sources - 1) \div n_sources)

\* line 946
MaxSamplesBudget(max_feature_calls, n_sources) ==
    Max(MIN_SAMPLES, max_feature_calls \div n_sources)

EffectiveSamples_Max(requested_samples, max_samples_budget) ==
    Max(requested_samples, max_samples_budget)

\* line 947
EffectiveSamples(requested_samples, max_samples_budget) ==
    Min(requested_samples, max_samples_budget)

Reject(l, status, msg) ==
    [l EXCEPT !.pc = "done",
              !.response = Some([ok |-> FALSE, status |-> status, error |-> msg])]

\* lines 919-937: the checks of the request body, the quality preset, the area
ApiValidate(t) ==
    /\ th[t].pc = "api_start"
    /\ LET r    == th[t].req
           area == geodesic_area_km2(r.geom)
       IN  Set(t, IF r.feature_type # "Feature"
                  THEN Reject(th[t], 400, "Body must contain a GeoJSON Feature")
                  ELSE IF r.geom.type \notin {"Polygon", "MultiPolygon"}
                  THEN Reject(th[t], 400, "This UI expects an AOI Polygon")
                  ELSE IF area <= 0
                  THEN Reject(th[t], 400, "AOI area could not be computed")
                  ELSE IF AoiTooLarge(area)
                  THEN Reject(th[t], 400, "AOI too large")
                  ELSE [th[t] EXCEPT !.pc = "budget",
                                     !.quality = IF r.quality \in DOMAIN QUALITY_TO_SAMPLES
                                                 THEN r.quality ELSE "standard",
                                     !.area_km2 = area])
    /\ UNCHANGED <<page, cfg, net, rng, now>>

\* lines 939-947: the sources to run and the call budget
ApiBudget(t) ==
    /\ th[t].pc = "budget"
    /\ LET run       == RUN_ORDER(cfg.ENABLE_SQR)
           n_sources == Max(1, Len(run))
           requested == RequestedSamples(th[t].quality, cfg.MAX_SAMPLES)
           budget    == MaxSamplesBudget(cfg.MAX_FEATURE_CALLS, n_sources)
       IN  Set(t, [th[t] EXCEPT !.pc = "sample",
                                !.sources_to_run = run,
                                !.n_sources = n_sources,
                                !.requested_samples = requested,
                                !.effective_samples = EffectiveSamples(requested, budget)])
    /\ UNCHANGED <<page, cfg, net, rng, now>>

\* line 949: random_points_in_polygon(geom, n=effective_samples, seed=int(time.time()))
ApiCallSampler(t) ==
    /\ th[t].pc = "sample"
    /\ \E clock \in now..MaxTime :
          /\ now' = clock
          /\ Set(t, [th[t] EXCEPT !.pc = "rp_seed", !.geom = th[t].req.geom,
                                  !.n = th[t].effective_samples, !.seed = clock])
    /\ UNCHANGED <<page, cfg, net, rng>>

\* lines 949-951 when the sampler returns, lines 975-976 when it raises
ApiSampled(t) ==
    /\ th[t].pc = "rp_done"
    /\ th[t].kind = "api"
    /\ LET ret == th[t].ret[1]
       IN  Set(t, IF ret.ok
                  THEN [th[t] EXCEPT !.pc = "src_loop", !.pts = ret.pts,
                                     !.results = <<>>, !.si = 1, !.ret = None]
                  ELSE [Reject(th[t], 500, "Could not sample points inside AOI")
                           EXCEPT !.ret = None])
    /\ UNCHANGED <<page, cfg, net, rng, now>>

CurrentSource(l) == l.sources_to_run[l.si]

\* lines 952-957: the next source, its layer
ApiSourceBegin(t) ==
    /\ th[t].pc = "src_loop"
    /\ th[t].si <= Len(th[t].sources_to_run)
    /\ LET sid == CurrentSource(th[t])
           lyr == pick_default_layer(sid)
       IN  Set(t, IF lyr = ""
                  THEN LeaveSource(th[t], SourceError(sid, "No layer"))
                  ELSE [th[t] EXCEPT !.pc = "eval", !.lyr = lyr, !.pi = 1,
                                     !.counts = <<>>, !.values = <<>>])
    /\ UNCHANGED <<page, cfg, net, rng, now>>

\* lines 728-746 and 771-787: one point of the loop, its GetFeatureInfo call answered
Accumulate(l, sid, e) ==
    IF ~e.counted THEN l
    ELSE [l EXCEPT !.counts = Bump(@, e.bucket.key, e.bucket.code, e.bucket.label),
                   !.values = IF ValueType(sid) = "numeric" THEN Append(@, e.value) ELSE @]

ApiEvalPoint(t) ==
    /\ th[t].pc = "eval"
    /\ th[t].pi <= Len(th[t].pts)
    /\ net # "down"
    /\ LET sid == CurrentSource(th[t])
           e   == Entries[EntryIndex(net, sid, th[t].pts[th[t].pi])]
       IN  Set(t, [Accumulate(th[t], sid, e) EXCEPT !.pi = @ + 1, !.fetches = @ + 1])
    /\ UNCHANGED <<page, cfg, net, rng, now>>

OnSourceException_Abort(l, msg) ==
    [Reject(l, 500, msg) EXCEPT !.lyr = "", !.pi = 0, !.counts = <<>>,
                                !.values = <<>>, !.fetches = 0]

OnSourceException_Retry(l, msg) == [l EXCEPT !.fetches = @ + 1]

\* lines 959-960: an exception of the source's analysis becomes its error entry
OnSourceException(l, msg) == LeaveSource(l, SourceError(CurrentSource(l), msg))

\* line 673 raising (lines 184-185: an HTTP error or a timeout), which nothing
\* catches before lines 959-960 of api_analyze
ApiFetchFailed(t) ==
    /\ th[t].pc = "eval"
    /\ th[t].pi <= Len(th[t].pts)
    /\ Set(t, OnSourceException(th[t], "HTTPError"))
    /\ UNCHANGED <<page, cfg, net, rng, now>>

\* lines 748-765, 789-848 and 958: the source's result, appended
ApiSourceEnd(t) ==
    /\ th[t].pc = "eval"
    /\ th[t].pi > Len(th[t].pts)
    /\ Set(t, LeaveSource(th[t], SourceResult(CurrentSource(th[t]), th[t].lyr,
                                               th[t].counts, th[t].values)))
    /\ UNCHANGED <<page, cfg, net, rng, now>>

\* lines 962-973: the response
ApiRespond(t) ==
    /\ th[t].pc = "src_loop"
    /\ th[t].si > Len(th[t].sources_to_run)
    /\ \E clock \in now..MaxTime :
          /\ now' = clock
          /\ Set(t, [th[t] EXCEPT !.pc = "done",
                                  !.response = Some([ok |-> TRUE, status |-> 200,
                                                     timestamp_utc |-> clock,
                                                     requested_samples |-> th[t].requested_samples,
                                                     effective_samples |-> th[t].effective_samples,
                                                     sources_run |-> th[t].sources_to_run,
                                                     results |-> th[t].results])])
    /\ UNCHANGED <<page, cfg, net, rng>>

----------------------------------------------------------------------------
(* A direct caller of random_points_in_polygon: the same arguments, twice *)

DirectCall(t) ==
    /\ th[t].pc = "direct"
    /\ Len(th[t].runs) < 2
    /\ Set(t, [th[t] EXCEPT !.pc = "rp_seed", !.geom = th[t].req.geom,
                            !.n = th[t].arg_n, !.seed = th[t].arg_seed])
    /\ UNCHANGED <<page, cfg, net, rng, now>>

DirectReturn(t) ==
    /\ th[t].pc = "rp_done"
    /\ th[t].kind = "direct"
    /\ Set(t, [th[t] EXCEPT !.pc = IF Len(th[t].runs) = 1 THEN "done" ELSE "direct",
                            !.runs = Append(@, th[t].ret[1]), !.ret = None])
    /\ UNCHANGED <<page, cfg, net, rng, now>>

----------------------------------------------------------------------------
(* A direct caller of _pick_attr, lines 249-293 *)

PickAttr(t) ==
    /\ th[t].pc = "pick"
    /\ Set(t, [th[t] EXCEPT !.pc = "done",
                            !.picked = Some(pick_attr(th[t].attrs, th[t].preferred_fields,
                                                      th[t].numeric))])
    /\ UNCHANGED <<page, cfg, net, rng, now>>

\* A direct caller of _bin_numeric and of the labelling of lines 782-786
BinValues(t) ==
    /\ th[t].pc = "bin"
    /\ Set(t, [th[t] EXCEPT
                  !.pc = "done",
                  !.bins = Map(LAMBDA fv : bin_numeric(fv, th[t].step), th[t].fvs),
                  !.b_labels = Map(LAMBDA fv : bin_label(fv, th[t].step, th[t].unit),
                                   th[t].fvs)])
    /\ UNCHANGED <<page, cfg, net, rng, now>>

----------------------------------------------------------------------------
(* Specification *)

DefaultCfg == [MAX_FEATURE_CALLS |-> DEFAULT_MAX_FEATURE_CALLS,
               MAX_SAMPLES |-> DEFAULT_MAX_SAMPLES, ENABLE_SQR |-> FALSE]

\* values of the environment variables MAX_FEATURE_CALLS and MAX_SAMPLES
CallCeilings == {10, DEFAULT_MAX_FEATURE_CALLS, 63, 250}

SampleCeilings == {3, 20, DEFAULT_MAX_SAMPLES, 100}

Cfgs == [MAX_FEATURE_CALLS : CallCeilings, MAX_SAMPLES : SampleCeilings, ENABLE_SQR : BOOLEAN]

ApiThread(req) == [IdleThread EXCEPT !.kind = "api", !.pc = "api_start", !.req = req]

DirectThread(g, n, seed) ==
    [IdleThread EXCEPT !.kind = "direct", !.pc = "direct",
                       !.req = [feature_type |-> "", geom |-> g, quality |-> ""],
                       !.arg_n = n, !.arg_seed = seed]

Requests == [feature_type : {"Feature", "FeatureCollection"}, geom : Geoms,
             quality : Qualities \cup {"best"}]

DefaultRequest == [feature_type |-> "Feature", geom |-> Square, quality |-> "standard"]

\* One request.  The request bodies that are no Feature, the AOI no draw ever
\* falls into (4000 tries and more) and the upstream data other than the
\* ordinary come with the default configuration.
InitOne ==
    /\ cfg \in Cfgs
    /\ net \in Datasets
    /\ \E req \in Requests :
          /\ net # "flaky" => cfg = DefaultCfg /\ req = DefaultRequest
          /\ req.feature_type # "Feature" => cfg = DefaultCfg /\ req = [DefaultRequest EXCEPT !.feature_type = req.feature_type]
          /\ req.geom = Sliver => cfg = DefaultCfg /\ req = [DefaultRequest EXCEPT !.geom = Sliver]
          /\ th = [t \in Threads |-> IF t = 1 THEN ApiThread(req) ELSE IdleThread]

\* Two requests at once on two worker threads, the upstream services down.
InitTwo ==
    /\ cfg = [DefaultCfg EXCEPT !.MAX_FEATURE_CALLS = 10]
    /\ net = "down"
    /\ th = [t \in Threads |-> ApiThread(DefaultRequest)]

\* A caller of the sampler with an explicit seed.
InitDirect ==
    /\ cfg = DefaultCfg
    /\ net = "flaky"
    /\ \E g \in {Square, Triangle}, n \in 1..MaxDirectN, seed \in 0..MaxSeed :
          th = [t \in Threads |-> IF t = 1 THEN DirectThread(g, n, seed) ELSE IdleThread]

\* names of fields: two that differ in case only and equal the first hint of
\* buek1000en, two that hold that hint inside, one that holds a later hint of
\* buek1000en and a hint of nfkwe1000 inside, one that is technical and holds
\* the first hint; the hints of boart1000ob match none of them
FieldNames ==
    {<<"N", "A", "M", "E">>,
     <<"n", "a", "m", "e">>,
     <<"n", "a", "m", "e", "_", "e", "n">>,
     <<"n", "a", "m", "e", "_", "d", "e">>,
     <<"s", "o", "i", "l", "_", "v", "a", "l", "u", "e">>,
     <<"n", "a", "m", "e", "_", "i", "d">>}

FieldValues == {Null, Num(70), Str(Txt.Podsol)}

\* the attribute maps of n fields: distinct names, any values
AttrMaps(n) ==
    {[i \in 1..n |-> [k |-> ks[i], v |-> vs[i]]] :
        ks \in {f \in [1..n -> FieldNames] : \A i, j \in 1..n : i # j => f[i] # f[j]},
        vs \in [1..n -> FieldValues]}

ResolverThread(attrs, preferred, numeric) ==
    [IdleThread EXCEPT !.kind = "resolver", !.pc = "pick", !.attrs = attrs,
                       !.preferred_fields = preferred, !.numeric = numeric]

\* A caller of _pick_attr as at line 680: any attribute map, the hints and the
\* kind of two categorical sources and of a numeric one.
InitResolver ==
    /\ cfg = DefaultCfg
    /\ net = "flaky"
    /\ \E n \in 0..MaxAttrs, sid \in {"buek1000en", "boart1000ob", "nfkwe1000"} :
          \E attrs \in AttrMaps(n) :
              th = [t \in Threads |->
                       IF t = 1 THEN ResolverThread(attrs, preferred_fields(sid),
                                                    ValueType(sid) = "numeric")
                       ELSE IdleThread]

\* the bucket counts with dominant count c and total t: as many buckets of c
\* as fit, and the rest
CountVector(c, t) ==
    [i \in 1..((t \div c) + (IF t % c = 0 THEN 0 ELSE 1)) |->
        IF i <= t \div c THEN c ELSE t % c]

\* the same counts with the buckets first seen in the opposite order
Reversed(vector) == [i \in 1..Len(vector) |-> vector[Len(vector) + 1 - i]]

RECURSIVE Repeat(_, _)
Repeat(v, n) == IF n = 0 THEN <<>> ELSE <<v>> \o Repeat(v, n - 1)

RECURSIVE ValuesOf(_, _)
ValuesOf(vector, i) ==
    IF i > Len(vector) THEN <<>> ELSE Repeat(10 * i, vector[i]) \o ValuesOf(vector, i + 1)

\* analyze_points_for_source when its loop over n points has ended: the
\* counts of a categorical source, the values and bin counts of a numeric one
AnalysisThread(sid, n, vector) ==
    LET bucket(i) ==
            IF ValueType(sid) = "numeric"
            THEN [key |-> BinLabel(sid, 10 * i), code |-> <<>>,
                  label |-> BinLabel(sid, 10 * i), count |-> vector[i]]
            ELSE [key |-> <<"b">> \o DigitsOf(i), code |-> <<>>,
                  label |-> <<"b">> \o DigitsOf(i), count |-> vector[i]]
    IN  [IdleThread EXCEPT !.kind = "analysis", !.pc = "eval",
                           !.sources_to_run = <<sid>>, !.si = 1, !.lyr = "0",
                           !.pts = Repeat(<<0, 0>>, n), !.pi = n + 1, !.fetches = n,
                           !.counts = [i \in 1..Len(vector) |-> bucket(i)],
                           !.values = IF ValueType(sid) = "numeric"
                                      THEN ValuesOf(vector, 1) ELSE <<>>]

\* The end of an analysis: every dominant count and total, the buckets first
\* seen largest first or smallest first, for a categorical and a numeric
\* source; a numeric source none of whose points had a value.
InitAnalysis ==
    /\ cfg = DefaultCfg
    /\ net = "flaky"
    /\ \E sid \in {"buek1000en", "physgru1000"}, t \in 0..MaxTotal :
          \E c \in (IF t = 0 THEN {1} ELSE 1..t), n \in {t, MIN_SAMPLES} :
              \E vector \in {CountVector(c, t), Reversed(CountVector(c, t))} :
                  /\ n # t => (t = 0 /\ ValueType(sid) = "numeric")
                  /\ th = [u \in Threads |->
                               IF u = 1 THEN AnalysisThread(sid, n, vector)
                               ELSE IdleThread]

\* The generator is seeded before every draw of this program, so one state
\* stands for the state it was imported with.
Init ==
    /\ rng = 0
    /\ now = 1
    /\ page = PageLoaded
    /\ InitOne \/ InitDirect

InitConcurrent ==
    /\ rng = 0
    /\ now = 1
    /\ page = PageLoaded
    /\ InitTwo \/ (InitOne /\ cfg = DefaultCfg) \/ InitDirect

Step(t) ==
    \/ ApiValidate(t)
    \/ ApiBudget(t)
    \/ ApiCallSampler(t)
    \/ RpSeed(t)
    \/ RpDrawX(t)
    \/ RpDrawY(t)
    \/ RpReturn(t)
    \/ RpRaise(t)
    \/ ApiSampled(t)
    \/ ApiSourceBegin(t)
    \/ ApiEvalPoint(t)
    \/ ApiFetchFailed(t)
    \/ ApiSourceEnd(t)
    \/ ApiRespond(t)
    \/ DirectCall(t)
    \/ DirectReturn(t)

Next == \E t \in Threads : Step(t)

Spec == Init /\ [][Next]_vars

\* The same threads, two of them serving a request at the same time.
SpecTwo == InitConcurrent /\ [][Next]_vars

\* the bin widths and units of SOURCES, and two widths that are not positive
BinConfigs ==
    {[step |-> 50, unit |-> Txt.mm], [step |-> 10, unit |-> Txt.dm],
     [step |-> 10, unit |-> <<>>], [step |-> 0, unit |-> <<>>],
     [step |-> -10, unit |-> <<>>]}

\* A caller of the binning: a bin width and two values, in tenths.
InitBinning ==
    /\ cfg = DefaultCfg
    /\ net = "flaky"
    /\ \E c \in BinConfigs, v \in (-10)..MaxBinValue, gap \in 0..MaxBinGap :
          th = [t \in Threads |->
                   IF t = 1
                   THEN [IdleThread EXCEPT !.kind = "binner", !.pc = "bin", !.step = c.step,
                                           !.unit = c.unit, !.fvs = <<v, v + gap>>]
                   ELSE IdleThread]

InitFunctions ==
    /\ rng = 0
    /\ now = 1
    /\ page = PageLoaded
    /\ InitResolver \/ InitAnalysis \/ InitBinning

NextFunctions == \E t \in Threads : PickAttr(t) \/ ApiSourceEnd(t) \/ BinValues(t)

\* The attribute resolver and the aggregation on their own, over all inputs
\* within the bounds.
SpecFunctions == InitFunctions /\ [][NextFunctions]_vars

----------------------------------------------------------------------------
(* Properties *)

ApiThreads == {t \in Threads : th[t].kind = "api"}

\* The request of thread t passed validation and its call budget is fixed.
Budgeted(t) == th[t].kind = "api" /\ th[t].n_sources > 0

\* The request of thread t is answered.
Answered(t) == th[t].kind = "api" /\ th[t].pc = "done"

Response(t) == th[t].response[1]

\* C1: the effective sample count is min(max(5, min(r, M)), max(5, C // k)) for
\* the preset count r, the sample ceiling M, the call ceiling C and k sources;
\* preset 25 with 4 sources and ceiling 60 gives a per-source budget of 15 and
\* 15 effective samples.
C1_EffectiveSamplesFormula ==
    \A t \in Threads : Budgeted(t) =>
        LET r == QUALITY_TO_SAMPLES[th[t].quality]
            k == th[t].n_sources
            C == cfg.MAX_FEATURE_CALLS
            M == cfg.MAX_SAMPLES
        IN  /\ k >= 1
            /\ th[t].effective_samples = Min(Max(5, Min(r, M)), Max(5, C \div k))
            /\ (r = 25 /\ k = 4 /\ C = 60 /\ M >= 25) => th[t].effective_samples = 15

C1_Witness ==
    \E t \in Threads :
        /\ Budgeted(t)
        /\ th[t].quality = "standard" /\ th[t].n_sources = 4
        /\ cfg.MAX_FEATURE_CALLS = 60 /\ cfg.MAX_SAMPLES = 80
        /\ th[t].effective_samples = 15

\* C3: a source whose analysis fails gets an error entry of its own (ok false,
\* its src_id, an error), every source of the run order gets its entry in order,
\* and the response of a request whose points were drawn is ok whatever
\* sources failed.
C3_FailureIsolatedPerSource ==
    \A t \in ApiThreads :
        LET l == th[t]
            EntriesInOrder(res) ==
                \A i \in 1..Len(res) :
                    /\ res[i].src_id = l.sources_to_run[i]
                    /\ ~res[i].ok => "error" \in DOMAIN res[i]
        IN  /\ l.pc \in {"src_loop", "eval"} =>
                /\ Len(l.results) = l.si - 1
                /\ EntriesInOrder(l.results)
            /\ (l.pc = "done" /\ l.pts # <<>>) =>
                /\ Response(t).ok
                /\ Response(t).results = l.results
                /\ Len(l.results) = Len(l.sources_to_run)
                /\ EntriesInOrder(l.results)

C3_Witness ==
    \E t \in ApiThreads :
        /\ Answered(t) /\ Response(t).ok
        /\ ~Response(t).results[1].ok
        /\ Response(t).results[2].ok
        /\ ~Response(t).results[3].ok

\* C4: an AOI whose area exceeds MAX_AOI_KM2 is answered with an error and
\* nothing else happens for it: no point is drawn, no layer resolved, no
\* point fetched, no result entered.
C4_TooLargeRejectedBeforeSampling ==
    \A t \in ApiThreads :
        LET l == th[t]
        IN  (l.req.feature_type = "Feature" /\ l.req.geom.type \in {"Polygon", "MultiPolygon"}
                /\ l.req.geom.area > MAX_AOI_KM2) =>
            /\ l.pc \in {"api_start", "done"}
            /\ l.pts = <<>> /\ l.acc = <<>> /\ l.tries = 0 /\ l.ret = None
            /\ l.results = <<>> /\ l.lyr = "" /\ l.fetches = 0 /\ l.n_sources = 0
            /\ l.pc = "done" => (~Response(t).ok /\ Response(t).status = 400
                                   /\ Response(t).error = "AOI too large")

C4_Witness ==
    \E t \in ApiThreads :
        /\ th[t].req.geom.area = MAX_AOI_KM2 + 1
        /\ Answered(t)
        /\ Response(t).error = "AOI too large"

C6_EffectiveSamplesRange ==
    \A t \in Threads :
        /\ Budgeted(t) =>
              /\ 5 <= th[t].effective_samples
              /\ th[t].effective_samples <= Min(th[t].requested_samples, 80)
        /\ (Answered(t) /\ Response(t).ok) =>
              /\ Response(t).requested_samples = th[t].requested_samples
              /\ 5 <= Response(t).effective_samples
              /\ Response(t).effective_samples <= Min(Response(t).requested_samples, 80)

C6_Witness ==
    \E t \in Threads :
        /\ Answered(t) /\ Response(t).ok
        /\ cfg.MAX_SAMPLES = 100
        /\ Response(t).effective_samples = 50
        /\ Response(t).requested_samples = 50

\* C2 as claimed: a failed fetch of one point drops that point alone; the
\* other points of the source are still fetched, and the source's entry is a
\* successful result.  So once a point of a source is answered, the loop over
\* its points is left only after the last point, with an ok entry.
C2_PointFailureSwallowed ==
    [][\A t \in Threads :
          (th[t].pc = "eval" /\ th[t].pi > 1 /\ th'[t].pc # "eval") =>
              /\ th[t].pi > Len(th[t].pts)
              /\ th'[t].results[Len(th'[t].results)].ok]_vars

\* What a thread asked random_points_in_polygon for.
WantedPoints(l) == IF l.kind = "api" THEN l.effective_samples ELSE l.arg_n

AllInside(pts, g) == \A i \in 1..Len(pts) : pts[i] \in g.inside

\* C7: what random_points_in_polygon returns is exactly n points, each of them
\* inside the AOI polygon itself, not only inside its bounding box.
C7_ReturnedPointsInsideAoi ==
    \A t \in Threads :
        LET l == th[t]
        IN  /\ (l.ret # None /\ l.ret[1].ok) =>
                  (Len(l.ret[1].pts) = WantedPoints(l) /\ AllInside(l.ret[1].pts, l.req.geom))
            /\ l.pts # <<>> =>
                  (Len(l.pts) = WantedPoints(l) /\ AllInside(l.pts, l.req.geom))
            /\ \A i \in 1..Len(l.runs) : l.runs[i].ok =>
                  (Len(l.runs[i].pts) = WantedPoints(l) /\ AllInside(l.runs[i].pts, l.req.geom))

C7_Witness ==
    \E t \in Threads :
        /\ th[t].pc = "rp_done" /\ th[t].ret[1].ok
        /\ th[t].req.geom.inside # Cells
        /\ Len(th[t].ret[1].pts) >= 5

\* in every state
C8_LoopBounded ==
    \A t \in Threads :
        LET l == th[t]
        IN  /\ l.pc \in {"rp_loop", "rp_y"} =>
                  /\ l.max_tries = Max(4000, l.n * 250)
                  /\ l.tries <= l.max_tries
                  /\ Len(l.acc) <= l.n
            \* a candidate is being drawn only while fewer than n are accepted
            /\ l.pc = "rp_y" => Len(l.acc) < l.n
            /\ (l.ret # None /\ ~l.ret[1].ok) => l.ret[1].pts = <<>>

\* in every step of the sampler
C8_LoopStep ==
    \A t \in Threads :
        LET l == th[t]
            m == th'[t]
        IN  /\ (l.pc = "rp_loop" /\ m.pc = "rp_y") =>
                  (m.tries = l.tries + 1 /\ l.tries < l.max_tries /\ Len(l.acc) < l.n)
            /\ (l.pc = "rp_loop" /\ m.pc = "rp_done") =>
                  IF Len(l.acc) >= l.n
                  THEN m.ret[1].ok /\ m.ret[1].pts = l.acc /\ Len(l.acc) = l.n
                  ELSE ~m.ret[1].ok /\ l.tries = l.max_tries

\* C8: random_points_in_polygon draws at most max(4000, n*250) candidates; it
\* stops as soon as n are accepted, and when the tries are used up with fewer
\* than n accepted it raises instead of returning a short list.
C8_SamplerStopsWithinBudget == [][C8_LoopBounded /\ C8_LoopBounded' /\ C8_LoopStep]_vars

C8_Witness ==
    \E t \in Threads :
        /\ th[t].pc = "rp_done" /\ ~th[t].ret[1].ok
        /\ th[t].req.geom.inside = {}

\* C9 as claimed: two calls of random_points_in_polygon with the same geometry,
\* n and explicitly passed seed return the same list.
C9_SameSeedSamePoints ==
    \A t \in Threads :
        (th[t].kind = "direct" /\ Len(th[t].runs) = 2) => th[t].runs[1] = th[t].runs[2]

\* The points of one undisturbed run of the sampler from a generator state.
RECURSIVE DrawFrom(_, _, _, _, _)
DrawFrom(g, n, s, tries, acc) ==
    IF ~(Len(acc) < n /\ tries < Max(4000, n * 250)) THEN acc
    ELSE LET s1 == RngNext(s)
             s2 == RngNext(s1)
             p  == <<Uniform(s1, Bounds.minx, Bounds.maxx), Uniform(s2, Bounds.miny, Bounds.maxy)>>
         IN  DrawFrom(g, n, s2, tries + 1, IF p \in g.inside THEN Append(acc, p) ELSE acc)

\* C10 as claimed: each request draws from a generator of its own, so the
\* points of a request are those of an undisturbed run from its own seed,
\* however another request's seeding and draws fall in between.
C10_PointsIndependentOfOtherRequests ==
    \A t \in ApiThreads :
        th[t].pts # <<>> =>
            \E seed \in 1..MaxTime :
                th[t].pts = DrawFrom(th[t].req.geom, th[t].effective_samples, RngSeed(seed), 0, <<>>)

\* in every state: no list before the one call of the sampler has returned,
\* and no draw while or after a source is analysed
C11_OneList ==
    \A t \in ApiThreads :
        LET l == th[t]
        IN  /\ l.pc \in {"api_start", "budget", "sample", "rp_seed", "rp_loop", "rp_y", "rp_done"} =>
                  (l.pts = <<>> /\ l.results = <<>> /\ l.si = 0)
            /\ l.pc \in {"src_loop", "eval"} =>
                  (Len(l.pts) = l.effective_samples /\ l.ret = None /\ l.acc = <<>>)

\* in every step: the list is set once, to what the sampler returned; the
\* analysis of a source starts at its first point, takes them one by one,
\* ends after the last and leaves the list as it is
C11_ListKept ==
    \A t \in ApiThreads :
        /\ th[t].pts # <<>> => th'[t].pts = th[t].pts
        /\ (th[t].pc = "src_loop" /\ th'[t].pc = "eval") =>
              (th'[t].pi = 1 /\ th'[t].counts = <<>> /\ th'[t].values = <<>>)
        /\ (th[t].pc = "eval" /\ th'[t].pc = "eval") =>
              LET sid == CurrentSource(th[t])
                  now_counted == Accumulate(th[t], sid,
                                            Entries[EntryIndex(net, sid, th[t].pts[th[t].pi])])
              IN  /\ th'[t].pi = th[t].pi + 1
                  /\ th'[t].counts = now_counted.counts
                  /\ th'[t].values = now_counted.values
        /\ (th[t].pts = <<>> /\ th'[t].pts # <<>>) =>
              (th[t].pc = "rp_done" /\ th[t].ret[1].ok /\ th'[t].pts = th[t].ret[1].pts)
        /\ (th[t].pc = "eval" /\ th'[t].pc = "src_loop" /\ th'[t].results[th[t].si].ok) =>
              th[t].pi = Len(th[t].pts) + 1

\* C11: the sample points of a request are drawn once, before any source is
\* analysed; every source of the run order is analysed with that one list, and
\* the analysis of a source does not modify it.
C11_PointsDrawnOnceAndShared == [][C11_OneList /\ C11_OneList' /\ C11_ListKept]_vars

C11_Witness ==
    \E t \in ApiThreads :
        /\ th[t].pc = "src_loop" /\ th[t].si = Len(th[t].sources_to_run) + 1
        /\ \A i \in 1..Len(th[t].results) : th[t].results[i].ok
        /\ Len(th[t].pts) >= 15

----------------------------------------------------------------------------
(* The aggregation on its own *)

\* the result a direct caller of analyze_points_for_source holds
AnalysisResults ==
    {th[t].results[1] : t \in {u \in Threads : th[u].kind = "analysis" /\ th[u].results # <<>>}}

NonDegenerate(r) == r.ok /\ r.distribution # <<>> /\ r.distribution[1].count > 0

\* C12: for every successful result that is not the degenerate one, the
\* reported dominant_share_pct and heterogeneity_pct, each rounded to two
\* decimals, add up to exactly 100, for every dominant count and every total
\* from 1 to MaxTotal (the two values depend on the counts through these only).
C12_SharesAddToHundred ==
    \A r \in AnalysisResults :
        NonDegenerate(r) => r.dominant_share_pct + r.heterogeneity_pct = 10000

\* 31 points of 32 in the dominant bucket: 96.875 and 3.125 are both ties
C12_Witness ==
    \E r \in AnalysisResults :
        /\ NonDegenerate(r)
        /\ r.distribution[1].count = 31 /\ r.distribution[1].share.den = 32
        /\ r.dominant_share_pct = 9688 /\ r.heterogeneity_pct = 312

RECURSIVE ShareSum(_)
ShareSum(dist) == IF dist = <<>> THEN 0 ELSE dist[1].share.num + ShareSum(Tail(dist))

\* |sum of the shares - 100| <= 0.1, the shares being fractions of one total
SharesNearHundred(dist) ==
    LET den  == dist[1].share.den
        diff == ShareSum(dist) - 100 * den
    IN  10 * (IF diff < 0 THEN -diff ELSE diff) <= den

\* C13 as claimed: the shares of the returned distribution add up to 100
\* within 0.1 whenever the total count is positive, for any number of buckets.
C13_ReturnedSharesSumToHundred ==
    \A r \in AnalysisResults : NonDegenerate(r) => SharesNearHundred(r.distribution)

\* C13, amended: when the points fall into at most 12 distinct buckets and
\* the total count is positive, the shares of the returned distribution add up
\* to 100 within 0.1; beyond 12 buckets the distribution is cut to the first
\* 12 with the shares unchanged.
C13_SharesSumToHundredUpTo12 ==
    [][\A t \in Threads :
          (/\ th[t].kind = "analysis" /\ th[t].pc = "eval" /\ th'[t].pc = "src_loop"
           /\ Total(th[t].counts) > 0) =>
              LET r == th'[t].results[1]
                  n == Len(th[t].counts)
              IN  /\ r.ok /\ Len(r.distribution) = Min(12, n)
                  /\ n <= 12 => SharesNearHundred(r.distribution)
                  /\ \A i \in 1..Len(r.distribution) :
                        r.distribution[i].share = Share(r.distribution[i].count,
                                                        Total(th[t].counts))]_vars

\* 70 points in 12 buckets, 6 in the largest
C13_Witness ==
    \E r \in AnalysisResults :
        /\ NonDegenerate(r) /\ Len(r.distribution) = 12
        /\ r.distribution[1].count = 6 /\ r.distribution[1].share.den = 70
        /\ SharesNearHundred(r.distribution)

----------------------------------------------------------------------------
(* Points without a value *)

\* no point of the request has a value the source can parse
NoPointParses(l, sid) ==
    \A k \in 1..Len(l.pts) : ~Entries[EntryIndex(net, sid, l.pts[k])].counted

\* C14: the result of a numeric source none of whose sample points yields a
\* parseable numeric value is ok and degenerate: the distribution is exactly
\* one bucket of count 0 and share 0 labelled "Unbekannt" (the program's word
\* for Unknown), dominant_share_pct and heterogeneity_pct are 0, stats is null.
C14_NumericWithoutValuesIsDegenerate ==
    \A t \in ApiThreads :
        \A i \in 1..Len(th[t].results) :
            LET r   == th[t].results[i]
                sid == th[t].sources_to_run[i]
            IN  (r.ok /\ ValueType(sid) = "numeric" /\ NoPointParses(th[t], sid)) =>
                    /\ Len(r.distribution) = 1
                    /\ r.distribution[1].label = Txt.Unbekannt
                    /\ r.distribution[1].count = 0
                    /\ r.distribution[1].share.num = 0
                    /\ r.dominant_share_pct = 0
                    /\ r.heterogeneity_pct = 0
                    /\ r.stats = <<>>

\* a request whose points all answer with a body that holds no number
C14_Witness ==
    \E t \in ApiThreads :
        /\ net = "bare" /\ Len(th[t].pts) >= MIN_SAMPLES
        /\ \E i \in 1..Len(th[t].results) :
              /\ th[t].results[i].ok
              /\ ValueType(th[t].sources_to_run[i]) = "numeric"
              /\ NoPointParses(th[t], th[t].sources_to_run[i])
              /\ th[t].results[i].distribution[1].count = 0

----------------------------------------------------------------------------
(* The attribute resolver on its own *)

\* the callers of _pick_attr that have their result
Resolved == {t \in Threads : th[t].kind = "resolver" /\ th[t].picked # None}

\* a field that may be the answer: not technical, not null, of the kind asked for
Qualifies(e, numeric) ==
    /\ ~TECH_FIELD_RX(e.k)
    /\ e.v # Null
    /\ looks_numeric(e.v) = numeric

IsField(p, e) == e.k = p.k /\ e.v = p.v

\* C15: what _pick_attr returns is either ("", None) or a field of the map
\* that is not technical, not null and of the target kind; it returns
\* ("", None) exactly when no field of the map is such a field.
C15_PickedFieldQualifies ==
    \A t \in Resolved :
        LET l == th[t]
            p == l.picked[1]
            qualifying == {i \in 1..Len(l.attrs) : Qualifies(l.attrs[i], l.numeric)}
        IN  /\ p = NothingPicked \/ \E i \in qualifying : IsField(p, l.attrs[i])
            /\ p = NothingPicked <=> qualifying = {}

\* a technical field and a field of the other kind come first, the third is returned
C15_Witness ==
    \E t \in Resolved :
        LET l == th[t]
        IN  /\ Len(l.attrs) = 3
            /\ TECH_FIELD_RX(l.attrs[1].k) /\ l.attrs[1].v # Null
            /\ l.attrs[2].v # Null /\ ~TECH_FIELD_RX(l.attrs[2].k)
            /\ looks_numeric(l.attrs[2].v) # l.numeric
            /\ IsField(l.picked[1], l.attrs[3])

\* the names of the fields and the hints in canonical form: lower case, no
\* blanks around
LowerNames(l) == Map(LAMBDA e : canon_key(e.k), l.attrs)

LowerHints(l) == Map(canon_key, l.preferred_fields)

EqualAmong(hints, names, fields) ==
    {j \in 1..Len(hints) : \E i \in fields : names[i] = hints[j]}

\* the hints that the name of one of the given fields equals, letter case aside
EqualHints(l, fields) == EqualAmong(LowerHints(l), LowerNames(l), fields)

Qualifying(l) == {i \in 1..Len(l.attrs) : Qualifies(l.attrs[i], l.numeric)}

\* the hints that some qualifying field equals, letter case aside
ExactlyMatchedHints(l) == EqualHints(l, Qualifying(l))

\* C16 as claimed: if some hint equals the name of a qualifying field, letter
\* case aside, the result is such a field for the earliest such hint, before
\* any substring match and the fallback, also when several names of the map
\* differ in letter case only.
C16_ExactMatchOfEarliestHintWins ==
    \A t \in Resolved :
        LET l == th[t]
            matched == ExactlyMatchedHints(l)
        IN  matched # {} =>
                \E i \in 1..Len(l.attrs) :
                    /\ Lower(l.attrs[i].k) = Lower(l.preferred_fields[MinOf(matched)])
                    /\ Qualifies(l.attrs[i], l.numeric)
                    /\ IsField(l.picked[1], l.attrs[i])

InsideAmong(hints, names, fields) ==
    {h \in (1..Len(hints)) \X fields : IsSubstring(hints[h[1]], names[h[2]])}

\* the pairs of a hint and one of the given fields whose name holds the hint
HintInside(l, fields) == InsideAmong(LowerHints(l), LowerNames(l), fields)

NonTechnical(l) == {i \in 1..Len(l.attrs) : ~TECH_FIELD_RX(l.attrs[i].k)}

\* w comes first in S: hints in priority order, then fields in map order
ComesFirst(w, S) == \A g \in S : w[1] < g[1] \/ (w[1] = g[1] /\ w[2] <= g[2])

\* the first pair of S is the result, when S has a pair
FirstOfIsPicked(l, S) ==
    S # {} => \E w \in S : ComesFirst(w, S) /\ IsField(l.picked[1], l.attrs[w[2]])

\* C17 as claimed: when no exact match qualifies, the first non-technical
\* field whose name holds a hint, hints in priority order and fields in map
\* order, is the result, whatever its value.
C17_FirstStructuralMatchWins ==
    \A t \in Resolved :
        ExactlyMatchedHints(th[t]) = {} =>
            FirstOfIsPicked(th[t], HintInside(th[t], NonTechnical(th[t])))

\* with no hint equal to the name of a qualifying field, the first pair of a
\* hint and a qualifying field whose name holds it gives the result
SubstringTier(l, hints, names, qualifying) ==
    EqualAmong(hints, names, qualifying) = {} =>
        FirstOfIsPicked(l, InsideAmong(hints, names, qualifying))

\* C17, amended: when no exact match qualifies, the result is the first
\* non-technical field whose name holds a hint and whose value is not null
\* and of the target kind, hints in priority order and, for one hint, fields
\* in map order.
C17_FirstQualifyingSubstringMatchWins ==
    \A t \in Resolved :
        SubstringTier(th[t], LowerHints(th[t]), LowerNames(th[t]), Qualifying(th[t]))

\* a technical field that holds the first hint, then a field that holds a
\* later hint, then a field that holds the first hint: the third is returned
C17_Witness ==
    \E t \in Resolved :
        LET l == th[t]
            S == HintInside(l, Qualifying(l))
        IN  /\ ExactlyMatchedHints(l) = {}
            /\ Len(l.attrs) = 3
            /\ TECH_FIELD_RX(l.attrs[1].k) /\ l.attrs[1].v # Null
            /\ <<3, 2>> \in S /\ <<1, 3>> \in S /\ <<1, 2>> \notin S
            /\ <<1, 1>> \in HintInside(l, {1})
            /\ IsField(l.picked[1], l.attrs[3])

\* with no hint equal to or inside the name of a qualifying field, the first
\* qualifying field of the map is the result
FallbackTier(l, hints, names, qualifying) ==
    (/\ EqualAmong(hints, names, qualifying) = {}
     /\ InsideAmong(hints, names, qualifying) = {}
     /\ qualifying # {}) =>
        \E i \in qualifying :
            /\ \A j \in qualifying : i <= j
            /\ IsField(l.picked[1], l.attrs[i])

\* C18: when neither an exact nor a substring match qualifies, the result is
\* the first field in map order that is not technical and whose value is of
\* the target kind; the order of the map decides among such fields.
C18_FallbackTakesFirstInMapOrder ==
    \A t \in Resolved :
        FallbackTier(th[t], LowerHints(th[t]), LowerNames(th[t]), Qualifying(th[t]))

\* a field without a value, then two fields that qualify and that no hint
\* matches: the second field of the map is returned
C18_Witness ==
    \E t \in Resolved :
        LET l == th[t]
        IN  /\ Len(l.attrs) = 3
            /\ l.attrs[1].v = Null /\ ~TECH_FIELD_RX(l.attrs[1].k)
            /\ Qualifying(l) = {2, 3}
            /\ HintInside(l, {1, 2, 3}) = {}
            /\ IsField(l.picked[1], l.attrs[2])

----------------------------------------------------------------------------
(* The dictionary of boart1000ob *)

\* what evaluate_point returns for the answers of all locations, numbered as
\* Entries is
Evaluated ==
    [i \in 1..(Len(DatasetOrder) * Len(RUN_ORDER(TRUE)) * Cardinality(Cells)) |->
        LET c   == (i - 1) % Cardinality(Cells)
            sid == RUN_ORDER(TRUE)[(((i - 1) \div Cardinality(Cells)) % Len(RUN_ORDER(TRUE))) + 1]
            d   == DatasetOrder[((i - 1) \div (Cardinality(Cells) * Len(RUN_ORDER(TRUE)))) + 1]
        IN  evaluate_point(sid, wms_getfeatureinfo_point(d, sid,
                                                         <<c % (GridMax + 1), c \div (GridMax + 1)>>))]

\* the label and the dictionary key (or else the unchanged code, in lower
\* case) that a point of boart1000ob is to be counted under
DictionaryLookup(ev) ==
    LET code  == Lower(Strip(ev.code))
        label == Strip(ev.label)
    IN  IF \E i \in 1..Len(BOART_CODE_TO_LABEL_DE) : BOART_CODE_TO_LABEL_DE[i].key = code
        THEN [key |-> code, label |-> BoartLabel(code)]
        ELSE IF \E i \in 1..Len(BOART_CODE_TO_LABEL_DE) :
                    BOART_CODE_TO_LABEL_DE[i].key = Lower(label)
        THEN [key |-> Lower(label), label |-> BoartLabel(Lower(label))]
        ELSE [key |-> code, label |-> label]

\* counts with one point more in its bucket i, which may be a new one
OneMoreIn(before, after, i) ==
    /\ Len(after) = Max(Len(before), i)
    /\ after[i].count = (IF i <= Len(before) THEN before[i].count ELSE 0) + 1
    /\ \A j \in 1..Len(before) : j # i => after[j] = before[j]

\* the example of the specification: the field picked from
\* {BODART_GR: ls, OBJECTID: 1} and the bucket of the point
C19_Example ==
    LET ls    == <<"l", "s">>
        attrs == <<[k |-> Txt.BODART_GR, v |-> Str(ls)], [k |-> Txt.OBJECTID, v |-> Num(10)]>>
        ev    == evaluate_point("boart1000ob",
                                [format |-> "json", features |-> <<attrs>>, body |-> <<>>])
    IN  /\ pick_attr(attrs, <<<<"b", "o", "d", "a", "r", "t", "_", "g", "r">>>>, FALSE) = [k |-> Txt.BODART_GR, v |-> Str(ls)]
        /\ ev.picked_field = Txt.BODART_GR
        /\ CategoricalBucket("boart1000ob", ev).label = <<"L", "e", "h", "m", "s", "a", "n", "d", "e", " ", "(", "l", "s", ")">>

\* C19: a point of boart1000ob whose detected code, or else whose lower-cased
\* label, is a key of the dictionary is counted under the dictionary's text
\* for that key, with that key as its code (in upper case, as all codes are);
\* a point that matches no key is counted under its own label and code.
C19_DictionaryMapsCodeOrLabel ==
    [][/\ C19_Example
       /\ \A t \in ApiThreads :
            (/\ th[t].pc = "eval" /\ th'[t].pc = "eval"
             /\ CurrentSource(th[t]) = "boart1000ob") =>
                LET ev == Evaluated[EntryIndex(net, "boart1000ob", th[t].pts[th[t].pi])]
                    to == DictionaryLookup(ev)
                IN  \E i \in 1..Len(th'[t].counts) :
                        /\ th'[t].counts[i].label = to.label
                        /\ Lower(th'[t].counts[i].code) = to.key
                        /\ OneMoreIn(th[t].counts, th'[t].counts, i)]_vars

\* a request with points of code Ls, of label Gewaesser (no code) and of the
\* unknown code x7, counted under the dictionary's texts and under x7
C19_Witness ==
    \E t \in ApiThreads :
        \E n \in 1..Len(th[t].results) :
            LET r == th[t].results[n]
            IN  /\ th[t].sources_to_run[n] = "boart1000ob" /\ r.ok
                /\ \E i, j, k \in 1..Len(r.distribution) :
                      /\ r.distribution[i].label = <<"L", "e", "h", "m", "s", "a", "n", "d", "e", " ", "(", "l", "s", ")">>
                      /\ r.distribution[i].code = <<"L", "S">>
                      /\ r.distribution[j].label = Txt.Gewaesser
                      /\ r.distribution[j].code = Upper(Txt.Gewaesser)
                      /\ r.distribution[k].label = Txt.x7
                      /\ r.distribution[k].code = <<"X", "7">>

----------------------------------------------------------------------------
(* Points whose attribute is not resolved *)

\* the locations whose answer is a JSON feature from which _pick_attr returns
\* ("", None), numbered as Entries is
Unresolved ==
    [i \in 1..(Len(DatasetOrder) * Len(RUN_ORDER(TRUE)) * Cardinality(Cells)) |->
        LET c   == (i - 1) % Cardinality(Cells)
            sid == RUN_ORDER(TRUE)[(((i - 1) \div Cardinality(Cells)) % Len(RUN_ORDER(TRUE))) + 1]
            d   == DatasetOrder[((i - 1) \div (Cardinality(Cells) * Len(RUN_ORDER(TRUE)))) + 1]
            fi  == wms_getfeatureinfo_point(d, sid, <<c % (GridMax + 1), c \div (GridMax + 1)>>)
        IN  /\ fi.format = "json" /\ fi.features # <<>>
            /\ pick_attr(fi.features[1], preferred_fields(sid), ValueType(sid) = "numeric")
                   = NothingPicked]

\* C20 as claimed: a source all of whose points are fetched but unresolved
\* has a result all the same; a categorical source counts the points in the
\* bucket labelled "Unbekannt" (Unknown) and under no other label, a numeric
\* source drops them, which leaves the degenerate bucket.
C20_UnresolvedCountedAsUnknown ==
    \A t \in ApiThreads :
        \A n \in 1..Len(th[t].results) :
            LET r   == th[t].results[n]
                sid == th[t].sources_to_run[n]
            IN  (/\ r.ok /\ th[t].pts # <<>>
                 /\ \A k \in 1..Len(th[t].pts) : Unresolved[EntryIndex(net, sid, th[t].pts[k])]) =>
                    /\ \A i \in 1..Len(r.distribution) :
                          r.distribution[i].label = Txt.Unbekannt
                    /\ ValueType(sid) = "numeric" => r.distribution[1].count = 0
                    /\ ValueType(sid) # "numeric" =>
                          r.distribution[1].count = Len(th[t].pts)

----------------------------------------------------------------------------
(* The order of a distribution *)

\* the place of bucket j of the counts, which are in first-seen order, among
\* all buckets: after the buckets of a greater count and after the buckets of
\* the same count that were seen earlier
Place(counts, j) ==
    1 + Cardinality({k \in 1..Len(counts) :
                        \/ counts[k].count > counts[j].count
                        \/ counts[k].count = counts[j].count /\ k < j})

\* C21: the distribution is ordered by non-increasing count, buckets of equal
\* count in the order in which they were first seen; the dominant value is its
\* first bucket, which has the greatest count; heterogeneity is 100 minus the
\* share of that bucket; the returned distribution is the first 12 buckets of
\* that order.
C21_DistributionOrderedTop12 ==
    [][\A t \in Threads :
          (/\ th[t].kind = "analysis" /\ th[t].pc = "eval" /\ th'[t].pc = "src_loop"
           /\ th[t].counts # <<>>) =>
              LET counts == th[t].counts
                  r      == th'[t].results[1]
                  dist   == r.distribution
              IN  /\ r.ok /\ Len(dist) = Min(12, Len(counts))
                  /\ \A j \in 1..Len(counts) :
                        Place(counts, j) <= 12 =>
                            /\ dist[Place(counts, j)].label = counts[j].label
                            /\ dist[Place(counts, j)].code = counts[j].code
                            /\ dist[Place(counts, j)].count = counts[j].count
                  /\ \A i \in 1..(Len(dist) - 1) : dist[i].count >= dist[i + 1].count
                  /\ r.dominant_label = dist[1].label
                  /\ \A j \in 1..Len(counts) : dist[1].count >= counts[j].count
                  /\ r.dominant_share_pct =
                         RoundedPct(Share(dist[1].count, Total(counts)))
                  /\ r.heterogeneity_pct =
                         RoundedRest(Share(dist[1].count, Total(counts)))]_vars

\* 40 points, the bucket first seen has 1 and the 13 after it have 3 each:
\* the returned distribution is the second to the thirteenth bucket
C21_Witness ==
    \E r \in AnalysisResults :
        /\ NonDegenerate(r) /\ Len(r.distribution) = 12
        /\ r.distribution[1].share.den = 40
        /\ r.distribution[1].label = <<"b", "2">>
        /\ r.distribution[12].label = <<"b", "1", "3">>
        /\ r.distribution[1].count = 3 /\ r.distribution[12].count = 3
        /\ r.dominant_label = <<"b", "2">>

----------------------------------------------------------------------------
(* The statistics of a numeric source *)

\* the number a point of a numeric source yields (lines 773-777), none when
\* nothing parses, for the answers of all locations, numbered as Entries is
Parsed == [i \in DOMAIN Evaluated |-> NumericValue(Evaluated[i])]

RECURSIVE SumOfParsed(_, _)
SumOfParsed(parsed, k) ==
    IF k > Len(parsed) THEN 0
    ELSE (IF parsed[k] # <<>> THEN parsed[k][1] ELSE 0) + SumOfParsed(parsed, k + 1)

RECURSIVE CountSum(_)
CountSum(dist) == IF dist = <<>> THEN 0 ELSE dist[1].count + CountSum(Tail(dist))

\* the statistics of a result against what the points of the request yield,
\* values in tenths and statistics in thousandths
StatsMatch(r, parsed) ==
    LET with == {k \in 1..Len(parsed) : parsed[k] # <<>>}
        st   == r.stats[1]
    IN  /\ r.stats # <<>>
        /\ st.n = Cardinality(with)
        /\ \E k \in with : st.min = 100 * parsed[k][1]
        /\ \A k \in with : st.min <= 100 * parsed[k][1]
        /\ \E k \in with : st.max = 100 * parsed[k][1]
        /\ \A k \in with : st.max >= 100 * parsed[k][1]
        /\ LET diff == st.mean * st.n - 100 * SumOfParsed(parsed, 1)
           IN  2 * (IF diff < 0 THEN -diff ELSE diff) <= st.n
        /\ CountSum(r.distribution) = st.n

\* C22: for a numeric source with at least one parsed value, stats.n is the
\* number of sample points whose value parsed, stats.min and stats.max are the
\* least and the greatest of the parsed values themselves, stats.mean is
\* their mean (to the third decimal), and the counts of the bins add up to
\* stats.n.
C22_StatsOverExactValues ==
    [][\A t \in ApiThreads :
          (/\ th[t].pc = "eval" /\ th'[t].pc = "src_loop"
           /\ ValueType(CurrentSource(th[t])) = "numeric"
           /\ th'[t].results[th[t].si].ok) =>
              LET sid    == CurrentSource(th[t])
                  parsed == [k \in 1..Len(th[t].pts) |->
                                Parsed[EntryIndex(net, sid, th[t].pts[k])]]
              IN  (\E k \in 1..Len(parsed) : parsed[k] # <<>>) =>
                      StatsMatch(th'[t].results[th[t].si], parsed)]_vars

\* a result of nfkwe1000 over values that are not multiples of the bin width:
\* the least value is 12.0 mm, the greatest 19.8 mm, the bins are 10 to 20 mm
C22_Witness ==
    \E t \in ApiThreads :
        \E n \in 1..Len(th[t].results) :
            LET r == th[t].results[n]
            IN  /\ th[t].sources_to_run[n] = "nfkwe1000" /\ r.ok /\ r.stats # <<>>
                /\ r.stats[1].min = 12000 /\ r.stats[1].max = 19800
                /\ r.stats[1].n = Len(th[t].pts) /\ r.stats[1].n >= MIN_SAMPLES
                /\ Len(r.distribution) = 3

----------------------------------------------------------------------------
(* The binning on its own *)

Binned == {t \in Threads : th[t].kind = "binner" /\ th[t].bins # <<>>}

\* C23: with a bin width w > 0 a value is mapped to a multiple of w that is
\* nearest to it (17.3 with w = 5 to 15), and two values get the same bin
\* label exactly when they are mapped to the same multiple; with w <= 0 the
\* value is returned unchanged.
C23_BinIsNearestMultiple ==
    \A t \in Binned :
        LET l == th[t]
        IN  /\ \A i \in 1..Len(l.fvs) :
                  IF l.step > 0
                  THEN /\ l.bins[i] % l.step = 0
                       /\ 2 * (IF l.fvs[i] < l.bins[i] THEN l.bins[i] - l.fvs[i]
                               ELSE l.fvs[i] - l.bins[i]) <= l.step
                  ELSE l.bins[i] = l.fvs[i]
            /\ l.step > 0 => (l.b_labels[1] = l.b_labels[2] <=> l.bins[1] = l.bins[2])
            /\ (l.step = 50 /\ l.fvs[1] = 173) => l.bins[1] = 150

\* 17.3 and 17.5 with w = 5: the first goes to 15, the second, which lies in
\* the middle between 15 and 20, goes to 20, so the two are in different bins
C23_Witness ==
    \E t \in Binned :
        /\ th[t].step = 50 /\ th[t].fvs = <<173, 175>>
        /\ th[t].bins = <<150, 200>>
        /\ th[t].b_labels = <<<<"1", "5", " ", "m", "m">>, <<"2", "0", " ", "m", "m">>>>

\* The step of thread t fetches the point th[t].pi of the source th[t].si: the
\* GetFeatureInfo request of line 520 is issued, answered or not.
Fetching(t) == th[t].kind = "api" /\ th[t].pc = "eval" /\ th[t].pi <= Len(th[t].pts)

\* C24: within one request at most one GetFeatureInfo request is issued for each
\* (source, sample point) pair and none is repeated after a failure: a step
\* that fetches point pi of a source has fetched the pi - 1 points before it
\* once each, and either goes on to point pi + 1 of the same source or gives
\* the source up with an error entry and goes on to the next source; sources
\* and points are never gone back to.  So the requests issued stay within
\* effective_samples for each source and effective_samples times the number
\* of sources run for the request.
C24_OneFetchPerSourcePoint ==
    [][\A t \in Threads :
          LET l  == th[t]
              l2 == th'[t]
          IN  /\ (l.kind = "api" /\ l.pc \notin {"idle", "done"}) =>
                    /\ l2.si >= l.si
                    /\ (l2.si = l.si /\ l.pc = "eval" /\ l2.pc = "eval") => l2.pi >= l.pi
              /\ Fetching(t) =>
                    /\ l.fetches = l.pi - 1
                    /\ Len(l.pts) <= l.effective_samples
                    /\ l.si <= Len(l.sources_to_run)
                    /\ (l.fetches + 1) + (l.si - 1) * l.effective_samples
                          <= l.effective_samples * Len(l.sources_to_run)
                    /\ \/ /\ l2.pc = "eval" /\ l2.si = l.si /\ l2.pts = l.pts
                          /\ l2.pi = l.pi + 1 /\ l2.fetches = l.fetches + 1
                       \/ /\ l2.pc = "src_loop" /\ l2.si = l.si + 1 /\ l2.pts = l.pts
                          /\ Len(l2.results) = Len(l.results) + 1
                          /\ ~l2.results[Len(l2.results)].ok
                          /\ l2.pi = 0 /\ l2.fetches = 0]_vars

\* The third point of the second source failed after the first source was
\* fetched point by point: the request goes on with the third source.
C24_Witness ==
    \E t \in ApiThreads :
        /\ th[t].pc = "src_loop" /\ th[t].si = 3
        /\ Len(th[t].results) = 2
        /\ th[t].results[1].ok /\ ~th[t].results[2].ok
        /\ Len(th[t].pts) >= MIN_SAMPLES

\* C25: for a request that reaches sampling the product of effective_samples
\* and the number of sources exceeds MAX_FEATURE_CALLS only when
\* MAX_FEATURE_CALLS // n_sources is below the floor of 5; when the quotient
\* is 5 or more the product is at most n_sources * (MAX_FEATURE_CALLS //
\* n_sources), hence within the ceiling, whether the division leaves a
\* remainder or not.
C25_CeilingExceededOnlyBelowFloor ==
    \A t \in Threads : Budgeted(t) =>
        LET k       == th[t].n_sources
            C       == cfg.MAX_FEATURE_CALLS
            product == th[t].effective_samples * k
        IN  /\ product > C => C \div k < MIN_SAMPLES
            /\ C \div k >= MIN_SAMPLES =>
                  /\ product <= k * (C \div k)
                  /\ product <= C - (C % k)
            /\ (C \div k < MIN_SAMPLES) => product = MIN_SAMPLES * k

\* The budget binds and the ceiling is no multiple of the number of sources:
\* 63 calls for 4 sources give 15 points each, 60 calls in all.
C25_Witness ==
    \E t \in Threads :
        /\ Budgeted(t) /\ th[t].pc = "sample"
        /\ cfg.MAX_FEATURE_CALLS = 63 /\ th[t].n_sources = 4
        /\ cfg.MAX_FEATURE_CALLS % th[t].n_sources # 0
        /\ th[t].requested_samples = 25
        /\ th[t].effective_samples = 15

\* C26: every response with ok true lists the run order of the configuration
\* as sources_run and has exactly one results entry for each of its sources,
\* in the same order (results[i].src_id = sources_run[i]): a success entry or
\* an error entry with its message, none skipped and none twice.
C26_OneEntryPerSourceInRunOrder ==
    \A t \in Threads :
        (Answered(t) /\ Response(t).ok) =>
            LET run == Response(t).sources_run
                res == Response(t).results
            IN  /\ run = RUN_ORDER(cfg.ENABLE_SQR)
                /\ DOMAIN res = DOMAIN run
                /\ \A i \in DOMAIN run :
                      /\ res[i].src_id = run[i]
                      /\ res[i].ok \in BOOLEAN
                      /\ res[i].ok => "distribution" \in DOMAIN res[i]
                      /\ ~res[i].ok => ("error" \in DOMAIN res[i] /\ res[i].error # "")
                /\ \A i, j \in DOMAIN res : res[i].src_id = res[j].src_id => i = j

\* Five sources were run; the second and the last failed, the others did not.
C26_Witness ==
    \E t \in Threads :
        /\ Answered(t) /\ Response(t).ok
        /\ Len(Response(t).sources_run) = 5
        /\ Response(t).results[1].ok /\ ~Response(t).results[2].ok
        /\ Response(t).results[3].ok /\ ~Response(t).results[5].ok

\* C27 as claimed: within the distribution of a categorical source distinct
\* buckets have distinct labels, two points of the same final label (after
\* the dictionary mapping) being counted in the same bucket.
C27_DistinctBucketsDistinctLabels ==
    \A t \in ApiThreads :
        \A n \in 1..Len(th[t].results) :
            LET r == th[t].results[n]
            IN  (r.ok /\ ValueType(r.src_id) # "numeric") =>
                    \A i, j \in 1..Len(r.distribution) :
                        r.distribution[i].label = r.distribution[j].label => i = j

\* C28: every sample point of a categorical source is counted in exactly one
\* bucket: while the loop runs the counts of all buckets add up to the number
\* of points passed so far, and when the analysis completes they add up to
\* the number of points handed in, which is effective_samples; the
\* distribution has the same counts when it is not truncated.
C28_CategoricalCountsSumToSamples ==
    [][\A t \in ApiThreads :
          LET l  == th[t]
              l2 == th'[t]
          IN  (l.pc = "eval" /\ ValueType(CurrentSource(l)) # "numeric") =>
                 /\ CountSum(l.counts) = l.pi - 1
                 /\ Len(l.pts) = l.effective_samples
                 /\ (l2.pc = "eval" /\ l2.pi = l.pi + 1) =>
                       /\ CountSum(l2.counts) = CountSum(l.counts) + 1
                       /\ Len(l2.counts) \in {Len(l.counts), Len(l.counts) + 1}
                 /\ (l2.pc = "src_loop" /\ l2.results[Len(l2.results)].ok) =>
                       /\ CountSum(l.counts) = Len(l.pts)
                       /\ CountSum(l.counts) = l.effective_samples
                       /\ Len(l.counts) <= 12 =>
                             CountSum(l2.results[Len(l2.results)].distribution)
                                = l.effective_samples]_vars

\* The analysis of the first source completed: its 15 points lie in two
\* buckets of 8 and 7.
C28_Witness ==
    \E t \in ApiThreads :
        /\ th[t].pc = "src_loop" /\ th[t].si = 2
        /\ th[t].effective_samples = 15 /\ Len(th[t].pts) = 15
        /\ th[t].results[1].ok /\ ValueType(th[t].results[1].src_id) # "numeric"
        /\ Len(th[t].results[1].distribution) = 2
        /\ th[t].results[1].distribution[1].count = 8
        /\ th[t].results[1].distribution[2].count = 7

----------------------------------------------------------------------------
(* The points of a numeric source *)

\* for the answers of all locations, numbered as Entries is: the value of the
\* field the resolver selects in the first feature, None when it selects no
\* field or the answer has no feature to resolve
Selected ==
    [i \in 1..(Len(DatasetOrder) * Len(RUN_ORDER(TRUE)) * Cardinality(Cells)) |->
        LET c   == (i - 1) % Cardinality(Cells)
            sid == RUN_ORDER(TRUE)[(((i - 1) \div Cardinality(Cells)) % Len(RUN_ORDER(TRUE))) + 1]
            d   == DatasetOrder[((i - 1) \div (Cardinality(Cells) * Len(RUN_ORDER(TRUE)))) + 1]
            fi  == wms_getfeatureinfo_point(d, sid, <<c % (GridMax + 1), c \div (GridMax + 1)>>)
            pk  == pick_attr(fi.features[1], preferred_fields(sid), ValueType(sid) = "numeric")
        IN  IF fi.format = "json" /\ fi.features # <<>> /\ pk # NothingPicked
            THEN Some(pk.v) ELSE None]

\* for the same answers: the number their text (line 692) is, None when it is none
RawNumber ==
    [i \in 1..(Len(DatasetOrder) * Len(RUN_ORDER(TRUE)) * Cardinality(Cells)) |->
        LET c   == (i - 1) % Cardinality(Cells)
            sid == RUN_ORDER(TRUE)[(((i - 1) \div Cardinality(Cells)) % Len(RUN_ORDER(TRUE))) + 1]
            d   == DatasetOrder[((i - 1) \div (Cardinality(Cells) * Len(RUN_ORDER(TRUE)))) + 1]
        IN  to_float(Str(DataStr(wms_getfeatureinfo_point(
                d, sid, <<c % (GridMax + 1), c \div (GridMax + 1)>>))))]

----------------------------------------------------------------------------
(* The web page, lines 1328-1794 *)

\* setActive(layer), lines 1364-1371: the report is left as it is
setActive(pg, shape) == [pg EXCEPT !.activeGeojson = shape, !.shapes = shape]

\* clearActive(), lines 1373-1384: the timer and the awaited calls are left
clearActive(pg) == [pg EXCEPT !.activeGeojson = 0, !.lastReport = None]

\* scheduleAnalyze(), lines 1747-1750
scheduleAnalyze(pg) == [pg EXCEPT !.analyzeTimer = TRUE]

\* runAnalyze() up to its await, lines 1752-1766
runAnalyze(pg) ==
    IF pg.activeGeojson = 0 THEN pg
    ELSE [pg EXCEPT !.started = @ + 1,
                    !.awaited = @ \cup {[req |-> pg.started + 1, aoi |-> pg.activeGeojson]}]

\* renderReport(rep), lines 1559-1561
renderReport(pg, rep) == [pg EXCEPT !.lastReport = Some(rep)]

\* lines 1386-1389: a shape drawn
PageDraw ==
    /\ page.shapes < MaxShapes
    /\ page' = scheduleAnalyze(setActive(page, page.shapes + 1))
    /\ UNCHANGED <<cfg, net, rng, now, th>>

\* lines 1391-1397: the shape edited
PageEdit ==
    /\ page.activeGeojson # 0
    /\ page.shapes < MaxShapes
    /\ page' = scheduleAnalyze(setActive(page, page.shapes + 1))
    /\ UNCHANGED <<cfg, net, rng, now, th>>

\* line 1402: the Clear button
PageClear ==
    /\ page' = clearActive(page)
    /\ UNCHANGED <<cfg, net, rng, now, th>>

\* lines 1404-1410: the Recalculate button
PageRecalc ==
    /\ page.activeGeojson # 0 => page.started < MaxAnalyses
    /\ page' = runAnalyze(page)
    /\ UNCHANGED <<cfg, net, rng, now, th>>

\* lines 1412-1414: another quality chosen
PageQuality ==
    /\ page' = IF page.activeGeojson # 0 THEN scheduleAnalyze(page) ELSE page
    /\ UNCHANGED <<cfg, net, rng, now, th>>

\* line 1749: the timer of scheduleAnalyze fires 350 ms after it was set
PageTimer ==
    /\ page.analyzeTimer
    /\ page.activeGeojson # 0 => page.started < MaxAnalyses
    /\ page' = runAnalyze([page EXCEPT !.analyzeTimer = FALSE])
    /\ UNCHANGED <<cfg, net, rng, now, th>>

\* lines 1762-1766 and 1781-1782: an awaited call is answered with a report;
\* the calls are answered in any order
PageReport ==
    /\ \E r \in page.awaited :
          page' = renderReport([page EXCEPT !.awaited = @ \ {r}], r)
    /\ UNCHANGED <<cfg, net, rng, now, th>>

\* lines 1768-1779 and 1783-1792: an awaited call is answered with ok false,
\* or fails
PageError ==
    /\ \E r \in page.awaited :
          page' = [page EXCEPT !.awaited = @ \ {r}, !.lastReport = None]
    /\ UNCHANGED <<cfg, net, rng, now, th>>

InitPage ==
    /\ cfg = DefaultCfg
    /\ net = "flaky"
    /\ rng = 0
    /\ now = 1
    /\ th = [t \in Threads |-> IdleThread]
    /\ page = PageLoaded

NextPage ==
    \/ PageDraw
    \/ PageEdit
    \/ PageClear
    \/ PageRecalc
    \/ PageQuality
    \/ PageTimer
    \/ PageReport
    \/ PageError

\* The page of one browser tab and the answers to its calls of /api/analyze.
SpecPage == InitPage /\ [][NextPage]_vars

\* C30 as claimed: the report the page shows and exports belongs to the AOI
\* that is active and to the analysis started last: a step that puts a
\* report on the page puts the report of the latest analysis of the active
\* AOI, so that no older answer replaces a newer report, and no report is on
\* the page while no AOI is active.
C30_ReportOfActiveAoiAndLatestAnalysis ==
    [][/\ (page'.lastReport # None /\ page'.lastReport # page.lastReport) =>
              /\ page'.lastReport[1].aoi = page'.activeGeojson
              /\ page'.lastReport[1].req = page'.started
       /\ page'.activeGeojson = 0 => page'.lastReport = None]_vars

====
